---- MODULE Spec2Model ----
(***************************************************************************)
(* Model of CachedAnalysisPipeline (src/src/pipeline.py): the cached,      *)
(* resumable two-stage batch analysis, as a sequence of runs of            *)
(* run_pipeline over one output directory.  The file system (cache         *)
(* entries, media files, report) persists from one run to the next.        *)
(***************************************************************************)
EXTENDS Integers, Sequences, FiniteSets, TLC

\* ---------------------------------------------------------------- bounds
MaxVideos == 3
MaxBatchSize == 2
MaxRuns == 2
\* the appendix on its own: rows of the corpus, and how their views vary
MaxRows == 17
MaxMult == 3
ViewsMod == 7
\* one cache entry on its own: characters of a summary
MaxTextLen == 3
\* the comment selection on its own: rows of the comments CSV
MaxComments == 2
\* the comment paging on its own
MaxPerVideo == 3
MaxItems == 2
MaxPages == 3
\* the media acquisition on its own
MaxIds == 2
MaxCsvRows == 3
\* the crawler on its own
MaxFound == 2
MaxResults == 2
MaxDetails == 4

\* ------------------------------------------------------ values of the model
\* os.path.exists(path) is False: there is no such file.
Absent == -1
\* The empty string "": falsy in `if summary:` / `if not final_report_content:`.
EmptyText == 0
\* The value None returned by the except branches.
NoneVal == -2
\* The text returned by a generative call of run r is tagged with r (r >= 1),
\* so that the texts of different runs can be told apart.  The characters of
\* a text, and what writing and reading a cache entry does to them, are
\* modelled on their own (SpecRoundTrip).
ResponseText(r) == r

\* Truth value of a str or None: None and "" are falsy.
\* (faulty variant: `if summary is not None:`)
TruthyNotNone(s) == s # NoneVal
Truthy(s) == s # NoneVal /\ s # EmptyText

\* The states genai.get_file reports.
FileStates == {"PROCESSING", "ACTIVE", "FAILED"}

\* batch_size >= 1, so there are at most MaxVideos batches.
BatchNums == 1..MaxVideos

Min(a, b) == IF a <= b THEN a ELSE b

\* The rows of a frame in the opposite order.
Reverse(seq) == [k \in 1..Len(seq) |-> seq[Len(seq) + 1 - k]]

\* ------------------------------------------------------------ partitioning
\* math.ceil(len(videos_df) / self.batch_size), for n >= 0 and bs >= 1.
\* (faulty variant: len(videos_df) // self.batch_size)
NumBatchesFloor(n, bs) == n \div bs
NumBatches(n, bs) == (n + bs - 1) \div bs

\* seq.iloc[start:endx]: 0-based, half-open, clamped to the length.
\* (faulty variant: the slice takes the row at endx too)
IlocInclusive(seq, start, endx) ==
    SubSeq(seq, Min(start, Len(seq)) + 1, Min(endx + 1, Len(seq)))
Iloc(seq, start, endx) ==
    SubSeq(seq, Min(start, Len(seq)) + 1, Min(endx, Len(seq)))

\* batch_videos of the loop iteration i (0-based):
\* start_index = i * batch_size, end_index = start_index + batch_size.
BatchVideos(videos, bs, k) == Iloc(videos, k * bs, k * bs + bs)

\* ---------------------------------------------------------- media resolution
RECURSIVE ResolveMediaAudioFirst(_, _, _)
RECURSIVE ResolveMedia(_, _, _)
\* The loop over batch_video_ids: the .mp4 if it exists, else the .mp3 if it
\* exists, else nothing.
\* (faulty variant: the .mp3 is looked for first)
ResolveMediaAudioFirst(ids, mp4, mp3) ==
    IF ids = <<>> THEN <<>>
    ELSE LET vid == Head(ids)
             rest == ResolveMediaAudioFirst(Tail(ids), mp4, mp3)
         IN  IF vid \in mp3 THEN <<<<"mp3", vid>>>> \o rest
             ELSE IF vid \in mp4 THEN <<<<"mp4", vid>>>> \o rest
             ELSE rest
ResolveMedia(ids, mp4, mp3) ==
    IF ids = <<>> THEN <<>>
    ELSE LET vid == Head(ids)
             rest == ResolveMedia(Tail(ids), mp4, mp3)
         IN  IF vid \in mp4 THEN <<<<"mp4", vid>>>> \o rest
             ELSE IF vid \in mp3 THEN <<<<"mp3", vid>>>> \o rest
             ELSE rest

\* ------------------------------------------------------------ the appendix
\* A row of videos_df, as far as the ranking reads it.
Row(id, views) == [id |-> id, views |-> views]

\* sort_values(by='views', ascending=False): the row e comes before the row
\* r.  pandas sorts with an unstable quicksort by default, so rows with
\* equal views come out in an order the caller does not control: `tie` is
\* "kept" (their order in the frame) or "swapped" (the reverse).
\* (faulty variant: ascending=True)
PrecedesAscending(e, r, tie) ==
    e.views < r.views \/ (e.views = r.views /\ tie = "kept")
Precedes(e, r, tie) ==
    e.views > r.views \/ (e.views = r.views /\ tie = "kept")

RECURSIVE InsertRow(_, _, _)
InsertRow(sorted, r, tie) ==
    IF sorted = <<>> THEN <<r>>
    ELSE IF Precedes(Head(sorted), r, tie)
         THEN <<Head(sorted)>> \o InsertRow(Tail(sorted), r, tie)
         ELSE <<r>> \o sorted

RECURSIVE SortValues(_, _)
SortValues(rows, tie) ==
    IF rows = <<>> THEN <<>>
    ELSE InsertRow(SortValues(SubSeq(rows, 1, Len(rows) - 1), tie),
                   rows[Len(rows)], tie)

\* df.head(k): the first k rows, or all of them if there are fewer.
HeadRows(rows, k) == SubSeq(rows, 1, Min(k, Len(rows)))

\* The `15` of .head(15).
TopRows == 15

\* appendix_df = videos_df.sort_values(by='views', ascending=False).head(15)
AppendixDf(rows, tie) == HeadRows(SortValues(rows, tie), TopRows)

VARIABLES
    \* the corpus and the configuration
    videos_df,          \* sequence of video ids (the rows of the videos CSV)
    comments_empty,     \* the comments CSV is missing, unreadable or has no row
    batch_size,
    missing_column,     \* a column the videos CSV lacks, or "none"
    videos_before,      \* the corpus before it was changed between two runs
    \* the file system under the output directory
    cache,              \* [BatchNums -> content of batch_{n}_summary.txt or Absent]
    cache_dir,          \* os.path.isdir(self.cache_dir)
    audio_dir,
    video_dir,
    mp3Files,           \* ids v with {audio_dir}/{v}.mp3
    mp4Files,           \* ids v with {video_dir}/{v}.mp4
    report,             \* content of the report file, or Absent
    flash_prompt_ok,    \* the Stage-1 prompt template can be opened
    \* the run in progress
    run,                \* number of the run (0 before the first)
    pc,
    outcome,            \* how the run ended
    i,                  \* loop variable of _process_batches
    all_summaries,
    media_files,        \* media of the batch being processed
    uploaded_files,     \* number of files uploaded for the batch so far
    polled_files,       \* number of files _wait_for_files_active is done with
    summary,
    final_report_content,
    \* what happened in this run (history)
    status,             \* per batch: "pending", "hit", "ok", "failed"
    uploads,            \* per batch: upload calls issued
    polls,              \* per batch: a status poll was issued
    gens,               \* per batch: Stage-1 generative calls issued
    badState,           \* per batch: a file was seen neither PROCESSING nor ACTIVE
    stage2Calls,        \* Stage-2 generative calls issued
    stage2_media,       \* media passed to the Stage-2 generative call
    removed,            \* directories removed by this run
    fsAtStart,          \* the file system when the run started
    fsAtStage2,         \* the file system when Stage-2 started
    \* what happened before this run
    prevStatus,         \* what is remembered of the previous run (RunDigest)
    lastStage1Cache,    \* the cache when the latest Stage-1 pass returned
    \* the partitioning on its own (SpecPartition)
    p_videos,           \* a corpus: a sequence of distinct video ids
    p_batch_size,
    p_batches,          \* the batches sliced so far
    \* the media resolution on its own (SpecMedia)
    m_ids,              \* batch_video_ids: a sequence of distinct video ids
    m_mp4,              \* ids v with {video_dir}/{v}.mp4
    m_mp3,              \* ids v with {audio_dir}/{v}.mp3
    m_refs,             \* media_files after the loop
    m_done,             \* the loop has run
    \* the appendix on its own (SpecAppendix)
    a_videos,           \* videos_df: a sequence of rows (id, views)
    a_tie,              \* how the sort orders rows with equal views
    a_appendix,         \* appendix_df
    a_done,             \* the appendix has been computed
    \* one cache entry on its own (SpecRoundTrip)
    t_summary,          \* the text returned by the Stage-1 call: a sequence of characters
    t_linesep,          \* os.linesep of the platform
    t_file,             \* the characters of batch_{n}_summary.txt
    t_appended,         \* what the producing run appended to all_summaries
    t_read,             \* what a later run appends on the cache hit
    t_pc,               \* "new", "written", "read"
    \* the comment selection on its own (SpecComments)
    c_videos,           \* videos_df: a sequence of distinct video ids
    c_batch_size,
    c_comments,         \* comments_df: a sequence of rows (id, id_video)
    c_selected,         \* batch_comments of the batches gone through so far
    \* runs interleaved against one output directory (SpecConcurrent)
    q_runs,             \* the runs: the first alone, or both
    q_num_batches,
    q_dirs,             \* which of the audio, video and cache directories exist
    q_cache,            \* [BatchNums -> batch_{n}_summary.txt exists]
    q_pc,               \* per run: where it is
    q_i,                \* per run: loop variable of _process_batches
    q_got,              \* per run: all_summaries is not empty
    q_gens,             \* per run and batch: Stage-1 generative calls issued
    q_raced,            \* per run: directories it removed while another run
                        \* was in Stage-1
    \* Stage-1 executed twice over the same inputs (SpecTwice)
    d_videos,           \* videos_df: a sequence of distinct video ids
    d_batch_size,
    d_comments,         \* comments_df
    d_mp4,              \* ids v with {video_dir}/{v}.mp4
    d_mp3,              \* ids v with {audio_dir}/{v}.mp3
    d_result,           \* per execution: what it computed for every batch
    d_done,             \* the executions that are over
    \* the comment paging of one video on its own (SpecPaging)
    f_max_comments,
    f_comments,         \* comments: a sequence of <<page, item>>
    f_count,
    f_next_page_token,  \* None, "" or the token of the last response
    f_requests,         \* commentThreads().list(..).execute() calls issued
    f_last,             \* how the last request ended: "none", "page", "error"
    f_pc,               \* "paging" or "returned"
    \* download_videos / extract_audio on their own (SpecAcquire)
    g_ext,              \* "mp4" (download_videos) or "mp3" (extract_audio)
    g_df,               \* df: the video_id of every row of the CSV
    g_files,            \* names v with {output_dir}/{v}.{ext}
    g_log,              \* per row gone through: "skipped", "ok", "failed"
    g_pc,               \* "loop" or "done"
    \* run_crawler on its own (SpecCrawler, SpecFilter)
    k_min_view_count,
    k_max_results,
    k_exclude,          \* the keywords of the exclude_keywords option
    k_sort_by,
    k_tie,              \* how the sort orders rows with equal keys
    k_video_ids,        \* video_ids: a set
    k_next_page_token,  \* None, "" or the token of the last response
    k_requests,         \* search().list(..).execute() calls issued
    k_last,             \* how the last request ended: "none", "page", "error"
    k_video_details,    \* what _get_video_details returned
    k_df,               \* what _process_and_filter_videos returned
    k_saved,            \* the rows of the output CSV
    k_written,          \* final_df.to_csv was called
    k_pc                \* "search", "searched", "details", "done"

fsVars == <<cache, cache_dir, audio_dir, video_dir, mp3Files, mp4Files, report>>
partVars == <<p_videos, p_batch_size, p_batches>>
mediaVars == <<m_ids, m_mp4, m_mp3, m_refs, m_done>>
appendixVars == <<a_videos, a_tie, a_appendix, a_done>>
roundTripVars == <<t_summary, t_linesep, t_file, t_appended, t_read, t_pc>>
commentVars == <<c_videos, c_batch_size, c_comments, c_selected>>
twiceVars == <<d_videos, d_batch_size, d_comments, d_mp4, d_mp3, d_result,
               d_done>>
pagingVars == <<f_max_comments, f_comments, f_count, f_next_page_token,
                f_requests, f_last, f_pc>>
acquireVars == <<g_ext, g_df, g_files, g_log, g_pc>>
crawlerCfg == <<k_min_view_count, k_max_results, k_exclude, k_sort_by, k_tie>>
crawlerVars == <<crawlerCfg, k_video_ids, k_next_page_token, k_requests,
                 k_last, k_video_details, k_df, k_saved, k_written, k_pc>>
upstreamVars == <<pagingVars, acquireVars, crawlerVars>>
raceVars == <<q_runs, q_num_batches, q_dirs, q_cache, q_pc, q_i, q_got, q_gens,
              q_raced>>
cfgVars == <<videos_df, videos_before, comments_empty, batch_size, missing_column,
             partVars, mediaVars, appendixVars, roundTripVars,
             commentVars, raceVars, twiceVars, upstreamVars>>
batchVars == <<media_files, uploaded_files, polled_files, summary>>
histVars == <<status, uploads, polls, gens, badState>>
stage2Vars == <<final_report_content, stage2Calls, stage2_media, fsAtStage2>>
runVars == <<run, flash_prompt_ok, fsAtStart, prevStatus>>
pipelineVars == <<videos_df, videos_before, comments_empty, batch_size,
                  missing_column, fsVars,
                  flash_prompt_ok, run, pc, outcome, i, all_summaries,
                  batchVars, histVars, stage2Vars, removed, fsAtStart,
                  prevStatus, lastStage1Cache>>
vars == <<pipelineVars, partVars, mediaVars, appendixVars, roundTripVars,
             commentVars, raceVars, twiceVars, upstreamVars>>

num_batches == NumBatches(Len(videos_df), batch_size)
batch_num == i + 1
cacheAtStart == fsAtStart[1]

NoCache == [n \in BatchNums |-> Absent]
\* videos_before when the corpus has not been changed
NotChanged == <<NoneVal>>
NoStatus == [n \in BatchNums |-> "pending"]
NoCount == [n \in BatchNums |-> 0]
NoFlag == [n \in BatchNums |-> FALSE]
\* lastStage1Cache when no Stage-1 pass has returned yet
NoPass == [n \in BatchNums |-> NoneVal]

\* Nothing in the cache, no report.
OutputEmpty ==
    /\ cache = NoCache
    /\ cache_dir = FALSE
    /\ report = Absent

\* No run has started.
ProcessIdle ==
    /\ flash_prompt_ok = TRUE
    /\ run = 0
    /\ pc = "idle"
    /\ outcome = "none"
    /\ i = 0
    /\ all_summaries = <<>>
    /\ media_files = <<>>
    /\ uploaded_files = 0
    /\ polled_files = 0
    /\ summary = NoneVal
    /\ final_report_content = NoneVal
    /\ status = NoStatus
    /\ uploads = NoCount
    /\ polls = NoFlag
    /\ gens = NoCount
    /\ badState = NoFlag
    /\ stage2Calls = 0
    /\ stage2_media = <<>>
    /\ removed = {}
    /\ fsAtStart = <<NoCache>>
    /\ fsAtStage2 = <<>>
    /\ prevStatus = NoStatus
    /\ lastStage1Cache = NoPass

\* No run has started: nothing in the cache, no report.
PipelineIdle ==
    /\ OutputEmpty
    /\ ProcessIdle

\* No corpus, no media and no run: the pipeline is not used.
PipelineUnused ==
    /\ videos_df = <<>>
    /\ videos_before = NotChanged
    /\ comments_empty = FALSE
    /\ batch_size = 1
    /\ missing_column = "none"
    /\ audio_dir = FALSE
    /\ video_dir = FALSE
    /\ mp3Files = {}
    /\ mp4Files = {}
    /\ PipelineIdle

\* No partitioning on its own.
PartitionIdle ==
    /\ p_videos = <<>>
    /\ p_batch_size = 1
    /\ p_batches = <<>>

\* No media resolution on its own.
MediaIdle ==
    /\ m_ids = <<>>
    /\ m_mp4 = {}
    /\ m_mp3 = {}
    /\ m_refs = <<>>
    /\ m_done = FALSE

\* No appendix on its own.
AppendixIdle ==
    /\ a_videos = <<>>
    /\ a_tie = "kept"
    /\ a_appendix = <<>>
    /\ a_done = FALSE

\* No cache entry on its own.
RoundTripIdle ==
    /\ t_summary = <<>>
    /\ t_linesep = <<>>
    /\ t_file = <<>>
    /\ t_appended = <<>>
    /\ t_read = <<>>
    /\ t_pc = "new"

\* No comment selection on its own.
CommentsIdle ==
    /\ c_videos = <<>>
    /\ c_batch_size = 1
    /\ c_comments = <<>>
    /\ c_selected = <<>>

\* The runs interleaved against one output directory: the first and the
\* second.
Procs == {1, 2}

\* No interleaved runs.
RaceIdle ==
    /\ q_runs = {}
    /\ q_num_batches = 0
    /\ q_dirs = {}
    /\ q_cache = NoFlag
    /\ q_pc = [p \in Procs |-> "new"]
    /\ q_i = [p \in Procs |-> 0]
    /\ q_got = [p \in Procs |-> FALSE]
    /\ q_gens = [p \in Procs |-> NoCount]
    /\ q_raced = [p \in Procs |-> {}]

\* No Stage-1 executed twice.
TwiceIdle ==
    /\ d_videos = <<>>
    /\ d_batch_size = 1
    /\ d_comments = <<>>
    /\ d_mp4 = {}
    /\ d_mp3 = {}
    /\ d_result = <<<<>>, <<>>>>
    /\ d_done = {}

\* No comment paging on its own.
PagingIdle ==
    /\ f_max_comments = 1
    /\ f_comments = <<>>
    /\ f_count = 0
    /\ f_next_page_token = NoneVal
    /\ f_requests = 0
    /\ f_last = "none"
    /\ f_pc = "paging"

\* No media acquisition on its own.
AcquireIdle ==
    /\ g_ext = "mp4"
    /\ g_df = <<>>
    /\ g_files = {}
    /\ g_log = <<>>
    /\ g_pc = "loop"

\* Nothing searched yet, nothing saved.
CrawlerNew ==
    /\ k_video_ids = {}
    /\ k_next_page_token = NoneVal
    /\ k_requests = 0
    /\ k_last = "none"
    /\ k_video_details = <<>>
    /\ k_df = <<>>
    /\ k_saved = <<>>
    /\ k_written = FALSE

\* No crawler on its own.
CrawlerIdle ==
    /\ k_min_view_count = 0
    /\ k_max_results = 0
    /\ k_exclude = <<>>
    /\ k_sort_by = "relevance"
    /\ k_tie = "kept"
    /\ CrawlerNew
    /\ k_pc = "search"

\* The steps that come before the pipeline are not modelled on their own.
UpstreamIdle ==
    /\ PagingIdle
    /\ AcquireIdle
    /\ CrawlerIdle

\* The corpus has 0..MaxVideos rows with ids 1..n; the media directories,
\* when they exist, hold an .mp3 for every video and an .mp4 for the videos
\* with an odd id (so a video has both files, the .mp3 only, or none).
CorpusAndMedia ==
    /\ \E n \in 0..MaxVideos : videos_df = [k \in 1..n |-> k]
    /\ videos_before = NotChanged
    /\ comments_empty \in BOOLEAN
    /\ batch_size \in 1..MaxBatchSize
    /\ audio_dir \in BOOLEAN
    /\ video_dir \in BOOLEAN
    /\ mp3Files = IF audio_dir THEN 1..Len(videos_df) ELSE {}
    /\ mp4Files = IF video_dir THEN {v \in 1..Len(videos_df) : v % 2 = 1} ELSE {}
    /\ PartitionIdle
    /\ MediaIdle
    /\ AppendixIdle
    /\ RoundTripIdle
    /\ CommentsIdle
    /\ RaceIdle
    /\ TwiceIdle
    /\ UpstreamIdle

\* The output directory before the first run.
InitCorpus ==
    /\ CorpusAndMedia
    /\ PipelineIdle

\* The videos CSV has every column the pipeline reads.
Init ==
    /\ InitCorpus
    /\ missing_column = "none"

\* The videos CSV has the column `c`: videos_df[c] raises no KeyError.
HasColumn(c) == missing_column # c

\* os.makedirs(self.cache_dir, exist_ok=True): what is in the directory stays.
\* (faulty variant: the directory is created anew)
MakedirsEmpties(c) == NoCache
Makedirs(c) == c

\* What is remembered of a run that ended with the batch statuses `st`: if
\* it got through Stage-1 with exactly one failed batch, which batch failed
\* and which were summarised ("ok": cache hit or fresh); of any other run,
\* nothing.
RunDigest(st) ==
    IF /\ \A n \in 1..num_batches : st[n] \in {"hit", "ok", "failed"}
       /\ Cardinality({n \in 1..num_batches : st[n] = "failed"}) = 1
       /\ num_batches >= 2
    THEN [n \in BatchNums |->
            IF n > num_batches THEN "pending"
            ELSE IF st[n] = "failed" THEN "failed" ELSE "ok"]
    ELSE NoStatus

\* __init__ of a new process and the entry of run_pipeline.
StartRun ==
    /\ pc \in {"idle", "done"}
    /\ run < MaxRuns
    /\ run' = run + 1
    /\ cache_dir' = TRUE
    /\ cache' = Makedirs(cache)
    /\ flash_prompt_ok' \in BOOLEAN
    /\ pc' = "load"
    /\ outcome' = "none"
    /\ i' = 0
    /\ all_summaries' = <<>>
    /\ media_files' = <<>>
    /\ uploaded_files' = 0
    /\ polled_files' = 0
    /\ summary' = NoneVal
    /\ final_report_content' = NoneVal
    /\ status' = NoStatus
    /\ uploads' = NoCount
    /\ polls' = NoFlag
    /\ gens' = NoCount
    /\ badState' = NoFlag
    /\ stage2Calls' = 0
    /\ stage2_media' = <<>>
    /\ removed' = {}
    /\ fsAtStart' = <<cache, TRUE, audio_dir, video_dir, mp3Files, mp4Files, report>>
    /\ fsAtStage2' = <<>>
    /\ prevStatus' = RunDigest(status)
    /\ UNCHANGED <<cfgVars, audio_dir, video_dir, mp3Files, mp4Files, report,
                   lastStage1Cache>>

\* ------------------------------------------------------------- run_pipeline
\* The run is over: `how` is "returned" (a return statement or the end of
\* run_pipeline), "critical" (ValueError / FileNotFoundError caught at line
\* 96) or "crashed" (any other exception, which leaves run_pipeline).
EndRun(how) ==
    /\ pc' = "done"
    /\ outcome' = how

\* `videos_df.empty or comments_df.empty`: _load_data gives an empty frame
\* for a missing or unreadable file, read_csv one for a file without rows.
\* (faulty variant: only the videos frame is tested)
CorpusEmptyVideosOnly(videos, no_comments) == videos = <<>>
CorpusEmpty(videos, no_comments) == videos = <<>> \/ no_comments

\* _load_data twice, and `if videos_df.empty or comments_df.empty: return`.
LoadData ==
    /\ pc = "load"
    /\ IF CorpusEmpty(videos_df, comments_empty)
       THEN EndRun("returned")
       ELSE pc' = "batch" /\ UNCHANGED outcome
    /\ UNCHANGED <<cfgVars, fsVars, runVars, i, all_summaries, batchVars,
                   histVars, stage2Vars, removed, lastStage1Cache>>

\* --------------------------------------------------------- _process_batches
\* for i in range(num_batches): the loop has no index left.
\* (faulty variant: range(num_batches - 1))
LoopExhaustedEarly == i >= num_batches - 1
LoopExhausted == i >= num_batches

\* os.path.exists(cache_file_path) for batch n.
\* (faulty variant: the cache is never consulted)
CacheExistsNever(n) == FALSE
\* (faulty variant: an entry counts only while the batch holds the videos it
\* held when the corpus was last changed)
CacheExistsForContent(n) ==
    /\ cache[n] # Absent
    /\ \/ videos_before = <<NoneVal>>
       \/ BatchVideos(videos_before, batch_size, n - 1)
              = BatchVideos(videos_df, batch_size, n - 1)
CacheExists(n) == cache[n] # Absent

\* all_summaries.append(summary)
\* (faulty variant: all_summaries.insert(0, summary))
InsertSummary(summaries, s) == <<s>> \o summaries
AppendSummary(summaries, s) == Append(summaries, s)

\* The end of one loop iteration: on to the next index.
NextBatch ==
    /\ i' = i + 1
    /\ pc' = "batch"
    /\ media_files' = <<>>
    /\ uploaded_files' = 0
    /\ polled_files' = 0
    /\ summary' = NoneVal

\* `continue` after a cache hit (line 124).
\* (faulty variant: no `continue`: the cached batch is processed as well)
CacheHitFallsThrough ==
    /\ i' = i
    /\ pc' = "flash"
    /\ media_files' = ResolveMedia(BatchVideos(videos_df, batch_size, i),
                                   mp4Files, mp3Files)
    /\ uploaded_files' = 0
    /\ polled_files' = 0
    /\ summary' = NoneVal
Continue == NextBatch

\* The entry exists: read it, append it, continue.
CacheHit ==
    /\ pc = "batch"
    /\ ~LoopExhausted
    /\ CacheExists(batch_num)
    /\ all_summaries' = AppendSummary(all_summaries, cache[batch_num])
    /\ status' = [status EXCEPT ![batch_num] = "hit"]
    /\ Continue
    /\ UNCHANGED <<cfgVars, fsVars, runVars, outcome, uploads, polls, gens,
                   badState, stage2Vars, removed, lastStage1Cache>>

\* `if not media_files:` prints a warning (lines 148-149) and the batch goes
\* on to _run_flash_analysis like any other.
\* (faulty variant: a batch without media is given up: `continue`)
SkipBatchWithoutMedia(media) == media = <<>>
SkipBatch(media) == FALSE

\* No entry: slice the batch, resolve its media, enter _run_flash_analysis
\* and open the prompt template.
CacheMiss ==
    /\ pc = "batch"
    /\ ~LoopExhausted
    /\ ~CacheExists(batch_num)
    /\ HasColumn("video_id")
    /\ flash_prompt_ok
    /\ LET media == ResolveMedia(BatchVideos(videos_df, batch_size, i),
                                 mp4Files, mp3Files)
       IN IF SkipBatch(media)
          THEN /\ media_files' = <<>>
               /\ i' = i + 1
               /\ pc' = "batch"
               /\ status' = [status EXCEPT ![batch_num] = "failed"]
          ELSE /\ media_files' = media
               /\ pc' = "flash"
               /\ UNCHANGED <<i, status>>
    /\ UNCHANGED <<cfgVars, fsVars, runVars, outcome, all_summaries,
                   uploaded_files, polled_files, summary, uploads, polls,
                   gens, badState, stage2Vars, removed, lastStage1Cache>>

\* open(self.flash_prompt_path) is outside the try block of
\* _run_flash_analysis (lines 177-178): the exception leaves
\* _process_batches.
\* (faulty variant: the template is opened inside the try block, so the
\* batch fails and the loop goes on)
PromptErrorCaught(how) ==
    /\ pc' = "returned"
    /\ outcome' = outcome
PromptError(how) == EndRun(how)

\* The Stage-1 prompt template cannot be opened: it is missing
\* (FileNotFoundError, caught by run_pipeline at line 96) or unreadable
\* (another OSError, which leaves run_pipeline).
FlashPromptMissing ==
    /\ pc = "batch"
    /\ ~LoopExhausted
    /\ ~CacheExists(batch_num)
    /\ HasColumn("video_id")
    /\ ~flash_prompt_ok
    /\ \E how \in {"critical", "crashed"} : PromptError(how)
    /\ UNCHANGED <<cfgVars, fsVars, runVars, i, all_summaries, batchVars,
                   histVars, stage2Vars, removed, lastStage1Cache>>

\* An exception inside the try block of _run_flash_analysis:
\* `except Exception: return None`.
\* (faulty variant: the exception is not caught and ends the run)
FlashFailedRaises ==
    /\ summary' = NoneVal
    /\ pc' = "done"
FlashFailed ==
    /\ summary' = NoneVal
    /\ pc' = "returned"

\* genai.upload_file(path=f) for the next media file; it returns a handle or
\* raises.
UploadFile ==
    /\ pc = "flash"
    /\ uploaded_files < Len(media_files)
    /\ uploads' = [uploads EXCEPT ![batch_num] = @ + 1]
    /\ \E ok \in BOOLEAN :
         IF ok
         THEN /\ uploaded_files' = uploaded_files + 1
              /\ UNCHANGED <<pc, summary>>
         ELSE /\ FlashFailed
              /\ UNCHANGED uploaded_files
    /\ UNCHANGED <<cfgVars, fsVars, runVars, outcome, i, all_summaries,
                   media_files, polled_files, status, polls, gens, badState,
                   stage2Vars, removed, lastStage1Cache>>

\* _wait_for_files_active: `while file.state.name == "PROCESSING"` and
\* `if file.state.name != "ACTIVE": raise`.
\* (faulty variant of StillProcessing: no while loop, one look at the state)
StillProcessingNever(st) == FALSE
StillProcessing(st) == st = "PROCESSING"
\* (faulty variant of NotActive: a state that is not ACTIVE is let through)
NotActiveIgnored(st) == FALSE
NotActive(st) == st # "ACTIVE"

\* genai.get_file(name) for the file at hand.  PROCESSING: sleep and poll
\* again; ACTIVE: on to the next file; anything else: raise.
GetFile ==
    /\ pc = "flash"
    /\ uploaded_files = Len(media_files)
    /\ polled_files < uploaded_files
    /\ polls' = [polls EXCEPT ![batch_num] = TRUE]
    /\ \E st \in FileStates :
         /\ badState' = IF st \in {"PROCESSING", "ACTIVE"} THEN badState
                        ELSE [badState EXCEPT ![batch_num] = TRUE]
         /\ IF StillProcessing(st)
            THEN UNCHANGED <<pc, summary, polled_files>>
            ELSE IF NotActive(st)
            THEN FlashFailed /\ UNCHANGED polled_files
            ELSE polled_files' = polled_files + 1 /\ UNCHANGED <<pc, summary>>
    /\ UNCHANGED <<cfgVars, fsVars, runVars, outcome, i, all_summaries,
                   media_files, uploaded_files, status, uploads, gens,
                   stage2Vars, removed, lastStage1Cache>>

\* model.generate_content([final_prompt] + uploaded_files) and response.text:
\* a text, the empty text, or an exception (return None).
GenerateContent ==
    /\ pc = "flash"
    /\ uploaded_files = Len(media_files)
    /\ polled_files = uploaded_files
    /\ gens' = [gens EXCEPT ![batch_num] = @ + 1]
    /\ \/ /\ summary' \in {ResponseText(run), EmptyText}
          /\ pc' = "returned"
       \/ FlashFailed
    /\ UNCHANGED <<cfgVars, fsVars, runVars, outcome, i, all_summaries,
                   media_files, uploaded_files, polled_files, status, uploads,
                   polls, badState, stage2Vars, removed, lastStage1Cache>>

\* open(cache_file_path, 'w') and f.write(summary) for batch n.
\* (faulty variant: the file name is built from the next batch number)
WriteCacheNextKey(c, n, s) == [c EXCEPT ![Min(n + 1, MaxVideos)] = s]
WriteCache(c, n, s) == [c EXCEPT ![n] = s]

\* Back in _process_batches: `if summary:` write the cache entry and append
\* the summary; else only a warning.
SaveSummary ==
    /\ pc = "returned"
    /\ IF Truthy(summary)
       THEN /\ cache' = WriteCache(cache, batch_num, summary)
            /\ all_summaries' = AppendSummary(all_summaries, summary)
            /\ status' = [status EXCEPT ![batch_num] = "ok"]
       ELSE /\ status' = [status EXCEPT ![batch_num] = "failed"]
            /\ UNCHANGED <<cache, all_summaries>>
    /\ NextBatch
    /\ UNCHANGED <<cfgVars, cache_dir, audio_dir, video_dir, mp3Files,
                   mp4Files, report, runVars, outcome, uploads, polls, gens,
                   badState, stage2Vars, removed, lastStage1Cache>>

\* The loop is exhausted: `return all_summaries`.
Stage1Return ==
    /\ pc = "batch"
    /\ LoopExhausted
    /\ pc' = "stage1_returned"
    /\ lastStage1Cache' = cache
    /\ UNCHANGED <<cfgVars, fsVars, runVars, outcome, i, all_summaries,
                   batchVars, histVars, stage2Vars, removed>>

\* `if not batch_summaries:` an empty list is falsy.
\* (faulty variant: `if len(batch_summaries) < num_batches:`)
NoBatchSummariesStrict(summaries) == Len(summaries) < num_batches
\* (faulty variant: the check is missing)
NoBatchSummariesNever(summaries) == FALSE
NoBatchSummaries(summaries) == summaries = <<>>

\* `if not batch_summaries: return`
NoSummaries ==
    /\ pc = "stage1_returned"
    /\ NoBatchSummaries(all_summaries)
    /\ EndRun("returned")
    /\ UNCHANGED <<cfgVars, fsVars, runVars, i, all_summaries, batchVars,
                   histVars, stage2Vars, removed, lastStage1Cache>>

\* ------------------------------------------------------- _synthesize_report
\* `if not final_report_content: return` in run_pipeline.
\* (faulty variant: the check is missing)
Stage2FailedIgnored(r) == FALSE
\* (faulty variant: `if final_report_content is None: return`)
Stage2FailedNone(r) == r = NoneVal
Stage2Failed(r) == ~Truthy(r)

\* model.generate_content(prompt): the prompt alone, no file.
\* (faulty variant: generate_content([prompt] + the media of the corpus))
Stage2MediaAll == ResolveMedia(videos_df, mp4Files, mp3Files)
Stage2Media == <<>>

\* The template is opened outside the try block (FileNotFoundError reaches
\* run_pipeline); the generative call returns a text, the empty text, or
\* raises (return None).
SynthesizeReport ==
    /\ pc = "stage1_returned"
    /\ ~NoBatchSummaries(all_summaries)
    /\ fsAtStage2' = fsVars
    /\ \/ /\ EndRun("critical")
          /\ UNCHANGED <<final_report_content, stage2Calls, stage2_media>>
       \/ /\ HasColumn("engagement")
          /\ stage2Calls' = stage2Calls + 1
          /\ stage2_media' = Stage2Media
          /\ \E r \in {ResponseText(run), EmptyText, NoneVal} :
               /\ final_report_content' = r
               /\ IF Stage2Failed(r)
                  THEN EndRun("returned")
                  ELSE pc' = "report" /\ UNCHANGED outcome
    /\ UNCHANGED <<cfgVars, fsVars, runVars, i, all_summaries, batchVars,
                   histVars, removed, lastStage1Cache>>

\* ----------------------------------------------------- _generate_report_file
\* An exception in _generate_report_file skips the rest of the try block of
\* run_pipeline, _cleanup included.
\* (faulty variant: _cleanup in a finally clause)
ReportFailedCleansUp(how) ==
    /\ pc' = "cleanup_audio"
    /\ outcome' = how
ReportFailed(how) == EndRun(how)

\* After _generate_report_file run_pipeline calls _cleanup (line 95),
\* whatever happened in Stage-1.
\* (faulty variant: _cleanup is called only when no batch failed)
AfterReportIfComplete ==
    IF \E n \in BatchNums : status[n] = "failed" THEN "done" ELSE "cleanup_audio"
AfterReport == "cleanup_audio"

\* The report is written; or the html template is missing
\* (FileNotFoundError, caught by run_pipeline); or writing fails with another
\* OSError, which leaves run_pipeline, the file untouched or truncated by
\* open(..., 'w').
GenerateReportFile ==
    /\ pc = "report"
    /\ HasColumn("channel")
    /\ \/ /\ report' = final_report_content
          /\ pc' = AfterReport
          /\ UNCHANGED outcome
       \/ /\ ReportFailed("critical")
          /\ UNCHANGED report
       \/ /\ ReportFailed("crashed")
          /\ report' \in {report, EmptyText}
    /\ UNCHANGED <<cfgVars, cache, cache_dir, audio_dir, video_dir, mp3Files,
                   mp4Files, runVars, i, all_summaries, batchVars, histVars,
                   stage2Vars, removed, lastStage1Cache>>

\* ------------------------------------------------------------------ _cleanup
\* What a failed shutil.rmtree leaves in a directory that held `files`: the
\* error came before anything was deleted, or after every file was.
Leftovers(files) == {files, {}}

\* _cleanup goes on with its next statement; after the last one run_pipeline
\* returns.
CleanupGoesOn(nxt) ==
    /\ pc' = nxt
    /\ outcome' = IF nxt = "done" /\ outcome = "none" THEN "returned" ELSE outcome

\* `except OSError as e: print(...)`: the error is printed and _cleanup goes
\* on.
\* (faulty variant: the OSError leaves _cleanup and run_pipeline)
RmtreeErrorRaises(nxt) ==
    /\ pc' = "done"
    /\ outcome' = "crashed"
RmtreeError(nxt) == CleanupGoesOn(nxt)

\* The report file after shutil.rmtree of the audio, video or cache
\* directory: the file is in output_dir itself (line 236), the three
\* directories are subdirectories of it (lines 65-67).
\* (faulty variant: the report is written into a directory _cleanup removes)
ReportAfterRmtreeGone(r) == Absent
ReportAfterRmtree(r) == r

\* shutil.rmtree(self.audio_dir) if it is a directory; an OSError is
\* printed and the directory stays.
CleanupAudio ==
    /\ pc = "cleanup_audio"
    /\ IF audio_dir
       THEN \/ /\ audio_dir' = FALSE
               /\ mp3Files' = {}
               /\ removed' = removed \cup {"audio"}
               /\ CleanupGoesOn("cleanup_video")
            \/ /\ mp3Files' \in Leftovers(mp3Files)
               /\ RmtreeError("cleanup_video")
               /\ UNCHANGED <<audio_dir, removed>>
       ELSE /\ CleanupGoesOn("cleanup_video")
            /\ UNCHANGED <<audio_dir, mp3Files, removed>>
    /\ report' = IF audio_dir THEN ReportAfterRmtree(report) ELSE report
    /\ UNCHANGED <<cfgVars, cache, cache_dir, video_dir, mp4Files,
                   runVars, i, all_summaries, batchVars, histVars,
                   stage2Vars, lastStage1Cache>>

CleanupVideo ==
    /\ pc = "cleanup_video"
    /\ IF video_dir
       THEN \/ /\ video_dir' = FALSE
               /\ mp4Files' = {}
               /\ removed' = removed \cup {"video"}
               /\ CleanupGoesOn("cleanup_cache")
            \/ /\ mp4Files' \in Leftovers(mp4Files)
               /\ RmtreeError("cleanup_cache")
               /\ UNCHANGED <<video_dir, removed>>
       ELSE /\ CleanupGoesOn("cleanup_cache")
            /\ UNCHANGED <<video_dir, mp4Files, removed>>
    /\ report' = IF video_dir THEN ReportAfterRmtree(report) ELSE report
    /\ UNCHANGED <<cfgVars, cache, cache_dir, audio_dir, mp3Files,
                   runVars, i, all_summaries, batchVars, histVars,
                   stage2Vars, lastStage1Cache>>

\* The cache `c` with the entries outside `keep` deleted.
Restrict(c, keep) == [n \in BatchNums |-> IF n \in keep THEN c[n] ELSE Absent]

\* The last step of _cleanup, and so of run_pipeline.
CleanupCache ==
    /\ pc = "cleanup_cache"
    /\ IF cache_dir
       THEN \/ /\ cache_dir' = FALSE
               /\ cache' = NoCache
               /\ removed' = removed \cup {"cache"}
               /\ CleanupGoesOn("done")
            \/ /\ \E keep \in Leftovers({n \in BatchNums : cache[n] # Absent}) :
                    cache' = Restrict(cache, keep)
               /\ RmtreeError("done")
               /\ UNCHANGED <<cache_dir, removed>>
       ELSE /\ CleanupGoesOn("done")
            /\ UNCHANGED <<cache_dir, cache, removed>>
    /\ report' = IF cache_dir THEN ReportAfterRmtree(report) ELSE report
    /\ UNCHANGED <<cfgVars, audio_dir, video_dir, mp3Files, mp4Files,
                   runVars, i, all_summaries, batchVars, histVars,
                   stage2Vars, lastStage1Cache>>

Next ==
    \/ StartRun
    \/ LoadData
    \/ CacheHit
    \/ CacheMiss
    \/ FlashPromptMissing
    \/ UploadFile
    \/ GetFile
    \/ GenerateContent
    \/ SaveSummary
    \/ Stage1Return
    \/ NoSummaries
    \/ SynthesizeReport
    \/ GenerateReportFile
    \/ CleanupAudio
    \/ CleanupVideo
    \/ CleanupCache

Spec == Init /\ [][Next]_vars

\* ------------------------------- runs interleaved against one output directory
\* Every run is a process of its own executing run_pipeline; the runs share
\* the output directory and nothing else.  A step is one access to the
\* file system or one external call.
Dirs == {"audio", "video", "cache"}
QStage1 == {"loop", "flash", "save"}

\* The other runs that are in _process_batches.
OthersInStage1(p) == {o \in q_runs \ {p} : q_pc[o] \in QStage1}

\* Non-empty corpus and comments, an existing media directory of each kind,
\* no cache entry; one run or several.
InitConcurrent ==
    /\ PipelineUnused
    /\ PartitionIdle
    /\ MediaIdle
    /\ AppendixIdle
    /\ RoundTripIdle
    /\ CommentsIdle
    /\ \E k \in Procs : q_runs = 1..k
    /\ \E n \in 1..MaxVideos, bs \in 1..MaxBatchSize :
           q_num_batches = NumBatches(n, bs)
    /\ q_dirs = {"audio", "video"}
    /\ q_cache = NoFlag
    /\ q_pc = [p \in Procs |-> "new"]
    /\ q_i = [p \in Procs |-> 0]
    /\ q_got = [p \in Procs |-> FALSE]
    /\ q_gens = [p \in Procs |-> NoCount]
    /\ q_raced = [p \in Procs |-> {}]
    /\ TwiceIdle
    /\ UpstreamIdle

QUnchanged == <<pipelineVars, partVars, mediaVars, appendixVars, roundTripVars,
                commentVars, twiceVars, upstreamVars, q_runs, q_num_batches>>

\* __init__: os.makedirs(self.cache_dir, exist_ok=True), line 68; then
\* run_pipeline loads the data and enters _process_batches.
QConstruct(p) ==
    /\ q_pc[p] = "new"
    /\ q_dirs' = q_dirs \cup {"cache"}
    /\ q_pc' = [q_pc EXCEPT ![p] = "loop"]
    /\ UNCHANGED <<QUnchanged, q_cache, q_i, q_got, q_gens, q_raced>>

\* os.path.exists(cache_file_path) is True: lines 119-124.
QCacheHit(p) ==
    /\ q_pc[p] = "loop"
    /\ q_i[p] < q_num_batches
    /\ q_cache[q_i[p] + 1]
    /\ q_got' = [q_got EXCEPT ![p] = TRUE]
    /\ q_i' = [q_i EXCEPT ![p] = @ + 1]
    /\ UNCHANGED <<QUnchanged, q_dirs, q_cache, q_pc, q_gens, q_raced>>

\* os.path.exists(cache_file_path) is False: lines 119, 126-149.
QCacheMiss(p) ==
    /\ q_pc[p] = "loop"
    /\ q_i[p] < q_num_batches
    /\ ~q_cache[q_i[p] + 1]
    /\ q_pc' = [q_pc EXCEPT ![p] = "flash"]
    /\ UNCHANGED <<QUnchanged, q_dirs, q_cache, q_i, q_got, q_gens, q_raced>>

\* After a failed batch the loop goes on with the next one.
\* (faulty variant: the failed batch is tried again)
QRetry(k) == k
QAfterFailure(k) == k + 1

\* _run_flash_analysis: the generative call of line 199 returns a text, or
\* it raises and None is returned: the batch is given up (lines 158-159).
QGenerate(p) ==
    /\ q_pc[p] = "flash"
    /\ q_gens' = [q_gens EXCEPT ![p][q_i[p] + 1] = @ + 1]
    /\ \/ /\ q_pc' = [q_pc EXCEPT ![p] = "save"]
          /\ q_i' = q_i
       \/ /\ q_pc' = [q_pc EXCEPT ![p] = "loop"]
          /\ q_i' = [q_i EXCEPT ![p] = QAfterFailure(@)]
    /\ UNCHANGED <<QUnchanged, q_dirs, q_cache, q_got, q_raced>>

\* `if summary:` lines 153-157.  With the cache directory gone, open(.., 'w')
\* raises FileNotFoundError, which ends the run (line 96).
QSave(p) ==
    /\ q_pc[p] = "save"
    /\ \/ /\ "cache" \in q_dirs
          /\ q_cache' = [q_cache EXCEPT ![q_i[p] + 1] = TRUE]
          /\ q_got' = [q_got EXCEPT ![p] = TRUE]
          /\ q_i' = [q_i EXCEPT ![p] = @ + 1]
          /\ q_pc' = [q_pc EXCEPT ![p] = "loop"]
       \/ /\ "cache" \notin q_dirs
          /\ q_pc' = [q_pc EXCEPT ![p] = "done"]
          /\ UNCHANGED <<q_cache, q_got, q_i>>
    /\ UNCHANGED <<QUnchanged, q_dirs, q_gens, q_raced>>

\* The loop is over: `if not batch_summaries: return` (lines 83-85), else
\* Stage-2.
QStage1Return(p) ==
    /\ q_pc[p] = "loop"
    /\ q_i[p] >= q_num_batches
    /\ q_pc' = [q_pc EXCEPT ![p] = IF q_got[p] THEN "stage2" ELSE "done"]
    /\ UNCHANGED <<QUnchanged, q_dirs, q_cache, q_i, q_got, q_gens, q_raced>>

\* _synthesize_report and _generate_report_file (lines 87-92): on success
\* the run goes on to _cleanup, else it ends.
QReport(p) ==
    /\ q_pc[p] = "stage2"
    /\ q_pc' \in {[q_pc EXCEPT ![p] = "cleanup_audio"],
                  [q_pc EXCEPT ![p] = "done"]}
    /\ UNCHANGED <<QUnchanged, q_dirs, q_cache, q_i, q_got, q_gens, q_raced>>

\* One block of _cleanup (lines 269-288): `if os.path.isdir(d)`, then
\* shutil.rmtree(d), whose OSError is swallowed.
QRmtree(p, d, nxt) ==
    /\ q_pc[p] = "cleanup_" \o d
    /\ q_pc' = [q_pc EXCEPT ![p] = nxt]
    /\ \/ /\ d \in q_dirs
          /\ q_dirs' = q_dirs \ {d}
          /\ q_cache' = IF d = "cache" THEN NoFlag ELSE q_cache
          /\ q_raced' = [q_raced EXCEPT ![p] =
                             IF OthersInStage1(p) # {} THEN @ \cup {d} ELSE @]
       \/ UNCHANGED <<q_dirs, q_cache, q_raced>>
    /\ UNCHANGED <<QUnchanged, q_i, q_got, q_gens>>

QCleanup(p) ==
    \/ QRmtree(p, "audio", "cleanup_video")
    \/ QRmtree(p, "video", "cleanup_cache")
    \/ QRmtree(p, "cache", "done")

NextConcurrent ==
    \E p \in q_runs :
        \/ QConstruct(p)
        \/ QCacheHit(p)
        \/ QCacheMiss(p)
        \/ QGenerate(p)
        \/ QSave(p)
        \/ QStage1Return(p)
        \/ QReport(p)
        \/ QCleanup(p)

SpecConcurrent == InitConcurrent /\ [][NextConcurrent]_vars

\* ------------------------------------- the corpus changed between two runs
\* What the videos CSV may hold when the crawl is redone between two runs:
\* the same rows in another order, one row fewer, one row more (the corpus
\* stays within MaxVideos), or other videos altogether (ids above MaxVideos).
ChangedCorpora(videos) ==
    {c \in {Reverse(videos),
            SubSeq(videos, 1, Len(videos) - 1),
            IF Len(videos) < MaxVideos
            THEN Append(videos, MaxVideos + 1) ELSE videos,
            [k \in 1..Len(videos) |-> videos[k] + MaxVideos + 1]} :
        c # videos}

\* Between the first run and the second the videos CSV is written anew
\* while the output directory holds cache entries; the output directory,
\* with its cache entries and media files, stays as it is.
ReplaceCorpus ==
    /\ pc = "done"
    /\ run = 1
    /\ cache # NoCache
    /\ videos_before = NotChanged
    /\ videos_df' \in ChangedCorpora(videos_df)
    /\ videos_before' = videos_df
    /\ UNCHANGED <<comments_empty, batch_size, missing_column, fsVars,
                   flash_prompt_ok, run, pc, outcome, i, all_summaries,
                   batchVars, histVars, stage2Vars, removed, fsAtStart,
                   prevStatus, lastStage1Cache,
                   partVars, mediaVars, appendixVars, roundTripVars,
                   commentVars, raceVars, twiceVars, upstreamVars>>

\* ------------------------------------------------ runs that are not stuck
\* The steps of a run after its start.
RunStep ==
    \/ LoadData
    \/ CacheHit
    \/ CacheMiss
    \/ FlashPromptMissing
    \/ UploadFile
    \/ GetFile
    \/ GenerateContent
    \/ SaveSummary
    \/ Stage1Return
    \/ NoSummaries
    \/ SynthesizeReport
    \/ GenerateReportFile
    \/ CleanupAudio
    \/ CleanupVideo
    \/ CleanupCache

\* One run over an output directory as earlier runs may have left it: any
\* of the cache entries may exist.
InitLive ==
    /\ CorpusAndMedia
    /\ missing_column = "none"
    /\ cache \in [BatchNums -> {Absent, ResponseText(1)}]
    /\ cache_dir = (cache # NoCache)
    /\ report = Absent
    /\ ProcessIdle

NextLive ==
    \/ run = 0 /\ StartRun
    \/ RunStep

\* Two runs, the corpus changed between them.
NextChanged ==
    \/ run < 2 /\ StartRun
    \/ RunStep
    \/ ReplaceCorpus

SpecChanged == Init /\ [][NextChanged]_vars

\* run_pipeline is one sequential thread: its next statement is executed
\* when every external call returns.  A poll that sees PROCESSING again
\* changes nothing (`while file.state.name == "PROCESSING"`), so the
\* fairness condition also says that no file reports PROCESSING forever.
SpecLive == InitLive /\ [][NextLive]_vars /\ WF_vars(RunStep)

\* ------------------------------------------------- runs that can be killed
\* The process is killed (SIGKILL, power loss) or f.write raises (disk full)
\* inside `with open(cache_file_path, 'w') as f: f.write(summary)`:
\* open(..., 'w') has created the entry, the text has not reached it.  Neither
\* the append nor anything after it happens.
WriteInterrupted ==
    /\ pc = "returned"
    /\ Truthy(summary)
    /\ cache' = [cache EXCEPT ![batch_num] = EmptyText]
    /\ pc' = "done"
    /\ outcome' = "crashed"
    /\ UNCHANGED <<cfgVars, cache_dir, audio_dir, video_dir, mp3Files,
                   mp4Files, report, runVars, i, all_summaries, batchVars,
                   histVars, stage2Vars, removed, lastStage1Cache>>

NextInterrupted ==
    \/ Next
    \/ WriteInterrupted

SpecInterrupted == Init /\ [][NextInterrupted]_vars

\* ------------------------------------------ a videos CSV lacking a column
\* _load_data returns whatever read_csv gives: a column the pipeline reads
\* later may be missing.  One column for each place the first KeyError can
\* come from: `video_id` (line 131), `engagement` (line 213), `channel`
\* (line 246).
Columns == {"none", "video_id", "engagement", "channel"}

InitColumns ==
    /\ InitCorpus
    /\ missing_column \in Columns

\* batch_videos['video_id'] at line 131, reached for the first batch without
\* a cache entry: KeyError, which run_pipeline does not catch.
KeyErrorStage1 ==
    /\ pc = "batch"
    /\ ~LoopExhausted
    /\ ~CacheExists(batch_num)
    /\ ~HasColumn("video_id")
    /\ EndRun("crashed")
    /\ UNCHANGED <<cfgVars, fsVars, runVars, i, all_summaries, batchVars,
                   histVars, stage2Vars, removed, lastStage1Cache>>

\* videos_df['engagement'].sum() at line 213, after the template was read
\* and before the generative call: KeyError.
KeyErrorStage2 ==
    /\ pc = "stage1_returned"
    /\ ~NoBatchSummaries(all_summaries)
    /\ ~HasColumn("engagement")
    /\ fsAtStage2' = fsVars
    /\ EndRun("crashed")
    /\ UNCHANGED <<cfgVars, fsVars, runVars, i, all_summaries, batchVars,
                   histVars, final_report_content, stage2Calls,
                   stage2_media, removed,
                   lastStage1Cache>>

\* appendix_df[[..., 'channel', ...]] at line 246, before the report file is
\* opened: KeyError.
KeyErrorReport ==
    /\ pc = "report"
    /\ ~HasColumn("channel")
    /\ ReportFailed("crashed")
    /\ UNCHANGED <<cfgVars, fsVars, runVars, i, all_summaries, batchVars,
                   histVars, stage2Vars, removed, lastStage1Cache>>

NextColumns ==
    \/ Next
    \/ KeyErrorStage1
    \/ KeyErrorStage2
    \/ KeyErrorReport

SpecColumns == InitColumns /\ [][NextColumns]_vars

\* ------------------------------------------- the partitioning on its own
\* The corpora: the sequences of 1..MaxVideos distinct video ids.
Corpora ==
    UNION {{s \in [1..n -> 1..MaxVideos] :
              \A a, b \in 1..n : a # b => s[a] # s[b]} : n \in 1..MaxVideos}

InitPartition ==
    /\ PipelineUnused
    /\ p_videos \in Corpora
    /\ p_batch_size \in 1..(MaxVideos + 1)
    /\ p_batches = <<>>
    /\ MediaIdle
    /\ AppendixIdle
    /\ RoundTripIdle
    /\ CommentsIdle
    /\ RaceIdle
    /\ TwiceIdle
    /\ UpstreamIdle

\* One iteration of `for i in range(num_batches)`: lines 127-129.
SliceBatch ==
    /\ Len(p_batches) < NumBatches(Len(p_videos), p_batch_size)
    /\ p_batches' = Append(p_batches,
                           BatchVideos(p_videos, p_batch_size, Len(p_batches)))
    /\ UNCHANGED <<pipelineVars, p_videos, p_batch_size, mediaVars, appendixVars,
                   roundTripVars, commentVars, raceVars, twiceVars, upstreamVars>>

NextPartition == SliceBatch

SpecPartition == InitPartition /\ [][NextPartition]_vars

\* ---------------------------------------- the media resolution on its own
\* The ids of a batch (distinct, in any order) and any content of the two
\* media directories.
InitMedia ==
    /\ PipelineUnused
    /\ PartitionIdle
    /\ m_ids \in Corpora
    /\ m_mp4 \in SUBSET (1..MaxVideos)
    /\ m_mp3 \in SUBSET (1..MaxVideos)
    /\ m_refs = <<>>
    /\ m_done = FALSE
    /\ AppendixIdle
    /\ RoundTripIdle
    /\ CommentsIdle
    /\ RaceIdle
    /\ TwiceIdle
    /\ UpstreamIdle

\* The loop `for vid in batch_video_ids` of lines 135-146.
ResolveBatch ==
    /\ ~m_done
    /\ m_refs' = ResolveMedia(m_ids, m_mp4, m_mp3)
    /\ m_done' = TRUE
    /\ UNCHANGED <<pipelineVars, partVars, m_ids, m_mp4, m_mp3, appendixVars,
                   roundTripVars, commentVars, raceVars, twiceVars, upstreamVars>>

NextMedia == ResolveBatch

SpecMedia == InitMedia /\ [][NextMedia]_vars

\* ------------------------------------------------------ the appendix on its own
\* The views of the row k of a corpus: they rise, fall back and repeat along
\* the frame, differently for every `mult` (all equal for mult = 0).
ViewsOf(k, mult) == (k * mult) % ViewsMod

\* A corpus of 0..MaxRows rows with ids 1..n, and either order of equal rows.
InitAppendix ==
    /\ PipelineUnused
    /\ PartitionIdle
    /\ MediaIdle
    /\ \E n \in 0..MaxRows, mult \in 0..MaxMult :
           a_videos = [k \in 1..n |-> Row(k, ViewsOf(k, mult))]
    /\ a_tie \in {"kept", "swapped"}
    /\ a_appendix = <<>>
    /\ a_done = FALSE
    /\ RoundTripIdle
    /\ CommentsIdle
    /\ RaceIdle
    /\ TwiceIdle
    /\ UpstreamIdle

\* `# --- Create Appendix Table ---` of _generate_report_file: line 240.
CreateAppendixTable ==
    /\ ~a_done
    /\ a_appendix' = AppendixDf(a_videos, a_tie)
    /\ a_done' = TRUE
    /\ UNCHANGED <<pipelineVars, partVars, mediaVars, a_videos, a_tie, roundTripVars,
                   commentVars, raceVars, twiceVars, upstreamVars>>

NextAppendix == CreateAppendixTable

SpecAppendix == InitAppendix /\ [][NextAppendix]_vars

\* ---------------------------------------------------- one cache entry on its own
\* The characters a text is made of: a letter, line feed, carriage return.
LF == "\n"
CR == "\r"
Chars == {"a", LF, CR}

\* f.write(summary) on a file opened with open(path, 'w', encoding='utf-8'):
\* newline is None, so every "\n" written is translated to os.linesep.
RECURSIVE TextWrite(_, _)
TextWrite(text, linesep) ==
    IF text = <<>> THEN <<>>
    ELSE (IF Head(text) = LF THEN linesep ELSE <<Head(text)>>)
         \o TextWrite(Tail(text), linesep)

\* f.read() on a file opened with open(path, 'r', encoding='utf-8'): newline
\* is None, so "\r\n" and a lone "\r" are both returned as "\n".
RECURSIVE TextRead(_)
TextRead(file) ==
    IF file = <<>> THEN <<>>
    ELSE IF Head(file) = CR
         THEN IF Len(file) >= 2 /\ file[2] = LF
              THEN <<LF>> \o TextRead(Tail(Tail(file)))
              ELSE <<LF>> \o TextRead(Tail(file))
         ELSE <<Head(file)>> \o TextRead(Tail(file))

\* The texts of 1..len characters (a text that is written is truthy).
RECURSIVE Texts(_)
Texts(len) ==
    IF len = 0 THEN {}
    ELSE [1..len -> Chars] \cup Texts(len - 1)

\* The Stage-1 call has returned a non-empty text; the platform writes
\* "\n" (POSIX) or "\r\n" (Windows) for a line end.
InitRoundTrip ==
    /\ PipelineUnused
    /\ PartitionIdle
    /\ MediaIdle
    /\ AppendixIdle
    /\ t_summary \in Texts(MaxTextLen)
    /\ t_linesep \in {<<LF>>, <<CR, LF>>}
    /\ t_file = <<>>
    /\ t_appended = <<>>
    /\ t_read = <<>>
    /\ t_pc = "new"
    /\ CommentsIdle
    /\ RaceIdle
    /\ TwiceIdle
    /\ UpstreamIdle

\* `if summary:` of the producing run: lines 153-157.
WriteCacheFile ==
    /\ t_pc = "new"
    /\ t_file' = TextWrite(t_summary, t_linesep)
    /\ t_appended' = t_summary
    /\ t_pc' = "written"
    /\ UNCHANGED <<pipelineVars, partVars, mediaVars, appendixVars,
                   t_summary, t_linesep, t_read, commentVars,
                   raceVars, twiceVars, upstreamVars>>

\* The cache hit of a later run: lines 119-124.
ReadCacheFile ==
    /\ t_pc = "written"
    /\ t_read' = TextRead(t_file)
    /\ t_pc' = "read"
    /\ UNCHANGED <<pipelineVars, partVars, mediaVars, appendixVars,
                   t_summary, t_linesep, t_file, t_appended, commentVars,
                   raceVars, twiceVars, upstreamVars>>

NextRoundTrip ==
    \/ WriteCacheFile
    \/ ReadCacheFile

SpecRoundTrip == InitRoundTrip /\ [][NextRoundTrip]_vars

\* ------------------------------------------------ the comment selection on its own
\* A row of comments_df, as far as the selection reads it.
Comment(id, id_video) == [id |-> id, id_video |-> id_video]

\* The elements of a sequence, as a set.
Elems(seq) == {seq[k] : k \in 1..Len(seq)}

\* One row of the mask comments_df['id_video'].isin(batch_video_ids).
\* (faulty variant: the mask is taken on the comment's own id)
IsInOwnId(c, batch_video_ids) == c.id \in Elems(batch_video_ids)
IsIn(c, batch_video_ids) == c.id_video \in Elems(batch_video_ids)

\* comments_df[mask]: the rows the mask keeps, in the order of the frame.
RECURSIVE BatchComments(_, _)
BatchComments(comments, batch_video_ids) ==
    IF comments = <<>> THEN <<>>
    ELSE (IF IsIn(Head(comments), batch_video_ids)
          THEN <<Head(comments)>> ELSE <<>>)
         \o BatchComments(Tail(comments), batch_video_ids)

\* The frames of 1..len comments (run_pipeline returns before Stage-1 when
\* comments_df is empty); the foreign key MaxVideos + 1 is the id of no video.
RECURSIVE CommentFrames(_)
CommentFrames(len) ==
    IF len = 0 THEN {}
    ELSE {[k \in 1..len |-> Comment(k, fk[k])] :
              fk \in [1..len -> 1..(MaxVideos + 1)]}
         \cup CommentFrames(len - 1)

InitComments ==
    /\ PipelineUnused
    /\ PartitionIdle
    /\ MediaIdle
    /\ AppendixIdle
    /\ RoundTripIdle
    /\ c_videos \in Corpora
    /\ c_batch_size \in 1..(MaxVideos + 1)
    /\ c_comments \in CommentFrames(MaxComments)
    /\ c_selected = <<>>
    /\ RaceIdle
    /\ TwiceIdle
    /\ UpstreamIdle

\* One iteration of the loop with no cache entry: lines 127-132.
SelectBatchComments ==
    /\ Len(c_selected) < NumBatches(Len(c_videos), c_batch_size)
    /\ LET batch_video_ids ==
               BatchVideos(c_videos, c_batch_size, Len(c_selected))
       IN  c_selected' = Append(c_selected,
                                BatchComments(c_comments, batch_video_ids))
    /\ UNCHANGED <<pipelineVars, partVars, mediaVars, appendixVars,
                   roundTripVars, raceVars, twiceVars, upstreamVars, c_videos, c_batch_size,
                   c_comments>>

NextComments == SelectBatchComments

SpecComments == InitComments /\ [][NextComments]_vars

\* ------------------------------------------ Stage-1 executed twice
\* batch_videos['video_id'].tolist() in the execution e: the ids in the
\* order of the frame, whichever execution it is.
\* (faulty variant: list(set(..)), whose order changes from one process to
\* the next with the hash seed)
ToListOfSet(ids, e) == IF e = 2 THEN Reverse(ids) ELSE ids
ToList(ids, e) == ids

\* What the execution e computes for the batch k (0-based) before the
\* Stage-1 analysis: lines 127-146.
BatchInputs(e, videos, bs, comments, mp4, mp3, k) ==
    LET batch_video_ids == ToList(BatchVideos(videos, bs, k), e)
    IN  [batch_video_ids |-> batch_video_ids,
         batch_comments |-> BatchComments(comments, batch_video_ids),
         media_files |-> ResolveMedia(batch_video_ids, mp4, mp3)]

\* The loop of _process_batches with no cache entry: every batch.
Stage1Inputs(e, videos, bs, comments, mp4, mp3) ==
    [n \in 1..NumBatches(Len(videos), bs) |->
        BatchInputs(e, videos, bs, comments, mp4, mp3, n - 1)]

\* A corpus, a batch size, a comments frame and the files of the media
\* directories: an .mp4 for any of the videos, an .mp3 for each.
InitTwice ==
    /\ PipelineUnused
    /\ PartitionIdle
    /\ MediaIdle
    /\ AppendixIdle
    /\ RoundTripIdle
    /\ CommentsIdle
    /\ RaceIdle
    /\ d_videos \in Corpora
    /\ d_batch_size \in 1..MaxBatchSize
    /\ d_comments \in CommentFrames(MaxComments)
    /\ d_mp4 \in SUBSET (1..MaxVideos)
    /\ d_mp3 = 1..MaxVideos
    /\ d_result = <<<<>>, <<>>>>
    /\ d_done = {}
    /\ UpstreamIdle

\* The execution e of Stage-1; the two executions share nothing but the
\* inputs and may come in either order.
Execute(e) ==
    /\ e \notin d_done
    /\ d_result' = [d_result EXCEPT ![e] =
           Stage1Inputs(e, d_videos, d_batch_size, d_comments, d_mp4, d_mp3)]
    /\ d_done' = d_done \cup {e}
    /\ UNCHANGED <<pipelineVars, partVars, mediaVars, appendixVars,
                   roundTripVars, commentVars, raceVars, upstreamVars,
                   d_videos, d_batch_size, d_comments, d_mp4, d_mp3>>

NextTwice == \E e \in {1, 2} : Execute(e)

SpecTwice == InitTwice /\ [][NextTwice]_vars

\* ------------------------------------------- the comment paging of one video
\* `if count >= max_comments` (line 131, inside the loop over the items) and
\* `count >= max_comments` (line 135, after the page).
\* (faulty variant: the collected comments are never counted against the
\* maximum)
ReachedMaxNever(count, max) == FALSE
ReachedMax(count, max) == count >= max

\* for item in response['items']: append the comment, count it, and break
\* once the maximum is reached (lines 120-132).
RECURSIVE PageLoop(_, _, _, _)
PageLoop(comments, items, count, max) ==
    IF items = <<>> THEN comments
    ELSE IF ReachedMax(count + 1, max) THEN Append(comments, Head(items))
    ELSE PageLoop(Append(comments, Head(items)), Tail(items), count + 1, max)

\* `if not next_page_token or count >= max_comments: break` (line 135).
StopPaging(token, count, max) == ~Truthy(token) \/ ReachedMax(count, max)

\* The items of the page the request number r brings.
PageItems(r, n) == [k \in 1..n |-> <<r, k>>]

\* A maximum of 1..MaxPerVideo comments and nothing fetched yet (lines
\* 106-108).
InitPaging ==
    /\ PipelineUnused
    /\ PartitionIdle
    /\ MediaIdle
    /\ AppendixIdle
    /\ RoundTripIdle
    /\ CommentsIdle
    /\ RaceIdle
    /\ TwiceIdle
    /\ AcquireIdle
    /\ CrawlerIdle
    /\ f_max_comments \in 1..MaxPerVideo
    /\ f_comments = <<>>
    /\ f_count = 0
    /\ f_next_page_token = NoneVal
    /\ f_requests = 0
    /\ f_last = "none"
    /\ f_pc = "paging"

\* execute() raises (HttpError or anything else): the except branches print
\* and break (lines 138-146).
RequestFails ==
    /\ f_pc' = "returned"
    /\ f_last' = "error"
    /\ UNCHANGED <<f_comments, f_count, f_next_page_token>>

\* The response is a page of n items, the item number `bad` (if not 0)
\* lacking a key the loop reads, with the nextPageToken `token`: the items
\* are appended up to the maximum or up to the faulty one, whose KeyError
\* ends the paging; else the token decides (lines 120-136).
PageArrives(n, bad, token) ==
    LET items == PageItems(f_requests + 1, n)
        good == IF bad = 0 THEN items ELSE SubSeq(items, 1, bad - 1)
        after == PageLoop(f_comments, good, f_count, f_max_comments)
        count == f_count + (Len(after) - Len(f_comments))
        broke == count > f_count /\ ReachedMax(count, f_max_comments)
    IN  /\ f_comments' = after
        /\ f_count' = count
        /\ IF bad # 0 /\ ~broke
           THEN /\ f_pc' = "returned"
                /\ f_last' = "error"
                /\ UNCHANGED f_next_page_token
           ELSE /\ f_next_page_token' = token
                /\ f_last' = "page"
                /\ f_pc' = IF StopPaging(token, count, f_max_comments)
                           THEN "returned" ELSE "paging"

\* One iteration of `while True`: the request and what comes of it.
FetchPage ==
    /\ f_pc = "paging"
    /\ f_requests < MaxPages
    /\ f_requests' = f_requests + 1
    /\ \/ RequestFails
       \/ \E n \in 0..MaxItems, token \in {NoneVal, EmptyText, f_requests + 1} :
            \E bad \in 0..n : PageArrives(n, bad, token)
    /\ UNCHANGED <<pipelineVars, partVars, mediaVars, appendixVars,
                   roundTripVars, commentVars, raceVars, twiceVars,
                   acquireVars, crawlerVars, f_max_comments>>

NextPaging == FetchPage

SpecPaging == InitPaging /\ [][NextPaging]_vars

\* ------------------------------------------------------ the media acquisition
\* The video ids of the model: 1..MaxIds are made of characters a file name
\* may hold; MaxIds + v is the id v with characters of [\/*?:"<>|] in it.
CleanIds == 1..MaxIds
VideoIds == 1..(2 * MaxIds)

\* re.sub(r'[\\/*?:"<>|]', "", video_id) (downloader.py line 80).
Sanitize(v) == IF v \in CleanIds THEN v ELSE v - MaxIds

\* output_filename: download_videos names the file after the sanitised id,
\* extract_audio after the id as it is.
OutputFilename(ext, v) == IF ext = "mp4" THEN Sanitize(v) ELSE v

\* The rows of a CSV: up to `len` video ids, an id possibly more than once.
CsvRows(len) == UNION {[1..n -> VideoIds] : n \in 0..len}

\* The except branches of the loop print and the loop goes on with the next
\* row.
\* (faulty variant: the exception is not caught and ends the loop)
FailureEndsLoop == "done"
AfterFailure == "loop"

\* A CSV with a url column, the output directory with some files of earlier
\* runs, and the loop over the rows about to start.
InitAcquire ==
    /\ PipelineUnused
    /\ PartitionIdle
    /\ MediaIdle
    /\ AppendixIdle
    /\ RoundTripIdle
    /\ CommentsIdle
    /\ RaceIdle
    /\ TwiceIdle
    /\ PagingIdle
    /\ CrawlerIdle
    /\ g_ext \in {"mp4", "mp3"}
    /\ g_df \in CsvRows(MaxCsvRows)
    /\ g_files \in SUBSET CleanIds
    /\ g_log = <<>>
    /\ g_pc = "loop"

\* The row the loop is at, and its output file.
CurrentRow == Len(g_log) + 1
CurrentFile == OutputFilename(g_ext, g_df[CurrentRow])

AcquireUnchanged ==
    <<pipelineVars, partVars, mediaVars, appendixVars, roundTripVars,
      commentVars, raceVars, twiceVars, pagingVars, crawlerVars, g_ext,
      g_df>>

\* `if os.path.exists(output_filename): continue`
SkipRow ==
    /\ g_pc = "loop"
    /\ CurrentRow <= Len(g_df)
    /\ CurrentFile \in g_files
    /\ g_log' = Append(g_log, "skipped")
    /\ UNCHANGED <<AcquireUnchanged, g_files, g_pc>>

\* subprocess.run(command, check=True, ..): the file is there afterwards, or
\* the command fails (CalledProcessError, or another exception), having
\* written the file or not.
DownloadRow ==
    /\ g_pc = "loop"
    /\ CurrentRow <= Len(g_df)
    /\ CurrentFile \notin g_files
    /\ \/ /\ g_files' = g_files \cup {CurrentFile}
          /\ g_log' = Append(g_log, "ok")
          /\ UNCHANGED g_pc
       \/ /\ g_files' \in {g_files, g_files \cup {CurrentFile}}
          /\ g_log' = Append(g_log, "failed")
          /\ g_pc' = AfterFailure
    /\ UNCHANGED AcquireUnchanged

\* The loop has no row left.
AcquireDone ==
    /\ g_pc = "loop"
    /\ CurrentRow > Len(g_df)
    /\ g_pc' = "done"
    /\ UNCHANGED <<AcquireUnchanged, g_files, g_log>>

NextAcquire ==
    \/ SkipRow
    \/ DownloadRow
    \/ AcquireDone

SpecAcquire == InitAcquire /\ [][NextAcquire]_vars

\* ------------------------------------------------------------- the crawler
\* str.lower() on a character and on a text: the letters of the model are
\* "a", "b" and their capitals.
Lower(c) == IF c = "A" THEN "a" ELSE IF c = "B" THEN "b" ELSE c
LowerText(t) == [k \in 1..Len(t) |-> Lower(t[k])]

\* `keyword in text`: the keyword is a substring of the text (the empty
\* keyword of every text).
Contains(keyword, text) ==
    \E start \in 1..(Len(text) - Len(keyword) + 1) :
        SubSeq(text, start, start + Len(keyword) - 1) = keyword

\* self.exclude_keywords: the keywords of the option, each in lower case
\* (line 64).
ExcludeKeywords(option) == [k \in 1..Len(option) |-> LowerText(option[k])]

\* title.lower() of line 160.
\* (faulty variant: the title is compared as it is)
TitleAsIs(title) == title
TitleLower(title) == LowerText(title)

\* any(keyword in title.lower() for keyword in self.exclude_keywords)
Excluded(title, keywords) ==
    \E k \in 1..Len(keywords) : Contains(keywords[k], TitleLower(title))

\* One item of the videos().list response, as far as the crawler reads it.
Video(v, title, views, likes, comments) ==
    [id |-> v, title |-> title, viewCount |-> views, likeCount |-> likes,
     commentCount |-> comments]

\* The dictionary appended for a video that passes both filters (lines
\* 173-183), as far as the later steps read it.
ProcessedVideo(video) ==
    [video_id |-> video.id,
     title |-> video.title,
     views |-> video.viewCount,
     likes |-> video.likeCount,
     comments |-> video.commentCount,
     engagement |-> video.likeCount + video.commentCount]

\* _process_and_filter_videos: the videos in the order of the response, but
\* for those with an excluded keyword in the title or too few views.
RECURSIVE ProcessAndFilterVideos(_, _, _)
ProcessAndFilterVideos(video_details, keywords, min_view_count) ==
    IF video_details = <<>> THEN <<>>
    ELSE LET video == Head(video_details)
             rest == ProcessAndFilterVideos(Tail(video_details), keywords,
                                            min_view_count)
         IN  IF Excluded(video.title, keywords) THEN rest
             ELSE IF video.viewCount < min_view_count THEN rest
             ELSE <<ProcessedVideo(video)>> \o rest

\* df.sort_values(by=key, ascending=False): the row e comes before the row r
\* (rows with equal keys in either order, as in the appendix).
ComesBefore(e, r, key, tie) ==
    e[key] > r[key] \/ (e[key] = r[key] /\ tie = "kept")

RECURSIVE InsertByKey(_, _, _, _)
InsertByKey(sorted, r, key, tie) ==
    IF sorted = <<>> THEN <<r>>
    ELSE IF ComesBefore(Head(sorted), r, key, tie)
         THEN <<Head(sorted)>> \o InsertByKey(Tail(sorted), r, key, tie)
         ELSE <<r>> \o sorted

RECURSIVE SortByKey(_, _, _)
SortByKey(rows, key, tie) ==
    IF rows = <<>> THEN <<>>
    ELSE InsertByKey(SortByKey(SubSeq(rows, 1, Len(rows) - 1), key, tie),
                     rows[Len(rows)], key, tie)

\* _sort_results: by views, by engagement, or the order of the response.
SortResults(df, sort_by, tie) ==
    IF sort_by = "viewCount" THEN SortByKey(df, "views", tie)
    ELSE IF sort_by = "engagement" THEN SortByKey(df, "engagement", tie)
    ELSE df

\* `for _ in range(3)`: the number of search pages asked for at most.
SearchPages == 3

\* `if not next_page_token: break` (lines 108-110).
\* (faulty variant: the loop goes on without a token)
NoMorePagesNever(token) == FALSE
NoMorePages(token) == ~Truthy(token)

\* `if df.empty: return` (lines 125-127).
DfEmpty(df) == df = <<>>

\* The ids a search may find, and a set of them in ascending order.
CrawlIds == 1..MaxFound
RECURSIVE Ascending(_)
Ascending(ids) ==
    IF ids = {} THEN <<>>
    ELSE LET m == CHOOSE x \in ids : \A y \in ids : x <= y
         IN  <<m>> \o Ascending(ids \ {m})

\* The titles and keywords of the model.
Titles == {<<"a">>, <<"A", "b">>, <<"b">>, <<"b", "B">>}
Keywords == {<<>>, <<"a">>, <<"A">>, <<"b", "b">>}

\* What videos().list answers for the video v in the variant `mult` of the
\* catalogue: the title and the counts differ from video to video and from
\* variant to variant.
TitleList == <<<<"a">>, <<"A", "b">>, <<"b">>, <<"b", "B">>>>
CatalogueVideo(v, mult) ==
    Video(v, TitleList[((v + mult) % Len(TitleList)) + 1],
          ViewsOf(v, mult), ViewsOf(v + 1, mult), ViewsOf(v + 2, mult))

\* run_crawler is entered: no id yet, no page token (lines 90-91).
InitCrawler ==
    /\ PipelineUnused
    /\ PartitionIdle
    /\ MediaIdle
    /\ AppendixIdle
    /\ RoundTripIdle
    /\ CommentsIdle
    /\ RaceIdle
    /\ TwiceIdle
    /\ PagingIdle
    /\ AcquireIdle
    /\ k_min_view_count \in {0, 2}
    /\ k_max_results \in 1..MaxResults
    /\ k_exclude \in {<<<<"a">>>>, <<<<"b", "b">>>>}
    /\ k_sort_by \in {"viewCount", "relevance"}
    /\ k_tie = "kept"
    /\ CrawlerNew
    /\ k_pc = "search"

CrawlerUnchanged ==
    <<pipelineVars, partVars, mediaVars, appendixVars, roundTripVars,
      commentVars, raceVars, twiceVars, pagingVars, acquireVars, crawlerCfg>>

\* One iteration of the search loop: the request raises HttpError (break),
\* or raises something else (which leaves run_crawler), or brings a page of
\* ids and a nextPageToken; the loop ends without a token and after the
\* last of the SearchPages iterations.
SearchPage ==
    /\ k_pc = "search"
    /\ k_requests < SearchPages
    /\ k_requests' = k_requests + 1
    /\ \/ /\ k_last' = "error"
          /\ k_pc' = "searched"
          /\ UNCHANGED <<k_video_ids, k_next_page_token>>
       \/ /\ k_last' = "crashed"
          /\ k_pc' = "done"
          /\ UNCHANGED <<k_video_ids, k_next_page_token>>
       \/ \E items \in SUBSET CrawlIds,
             token \in {NoneVal, EmptyText, k_requests + 1} :
            /\ k_video_ids' = k_video_ids \cup items
            /\ k_next_page_token' = token
            /\ k_last' = "page"
            /\ k_pc' = IF NoMorePages(token) \/ k_requests + 1 = SearchPages
                       THEN "searched" ELSE "search"
    /\ UNCHANGED <<CrawlerUnchanged, k_video_details, k_df, k_saved, k_written>>

\* `if not video_ids: return` (lines 115-117).
NoVideosFound ==
    /\ k_pc = "searched"
    /\ k_video_ids = {}
    /\ k_pc' = "done"
    /\ UNCHANGED <<CrawlerUnchanged, k_video_ids, k_next_page_token,
                   k_requests, k_last, k_video_details, k_df, k_saved,
                   k_written>>

\* _get_video_details(list(video_ids)): the ids in an order the set gives,
\* and the items of the response in that order; nothing if the request
\* raises HttpError (lines 141-151).
GetVideoDetails ==
    /\ k_pc = "searched"
    /\ k_video_ids # {}
    /\ \/ k_video_details' = <<>>
       \/ \E mult \in 0..MaxMult, reversed \in BOOLEAN :
            LET video_ids == IF reversed THEN Reverse(Ascending(k_video_ids))
                             ELSE Ascending(k_video_ids)
            IN  k_video_details' =
                    [n \in 1..Len(video_ids) |-> CatalogueVideo(video_ids[n], mult)]
    /\ k_pc' = "details"
    /\ UNCHANGED <<CrawlerUnchanged, k_video_ids, k_next_page_token,
                   k_requests, k_last, k_df, k_saved, k_written>>

\* Lines 123-133: filter; return if nothing is left; else sort, take the
\* first max_results rows and write the CSV.
ProcessAndSave ==
    /\ k_pc = "details"
    /\ k_df' = ProcessAndFilterVideos(k_video_details,
                                      ExcludeKeywords(k_exclude),
                                      k_min_view_count)
    /\ IF DfEmpty(k_df')
       THEN UNCHANGED <<k_saved, k_written>>
       ELSE /\ k_saved' = HeadRows(SortResults(k_df', k_sort_by, k_tie),
                                   k_max_results)
            /\ k_written' = TRUE
    /\ k_pc' = "done"
    /\ UNCHANGED <<CrawlerUnchanged, k_video_ids, k_next_page_token,
                   k_requests, k_last, k_video_details>>

NextCrawler ==
    \/ SearchPage
    \/ NoVideosFound
    \/ GetVideoDetails
    \/ ProcessAndSave

SpecCrawler == InitCrawler /\ [][NextCrawler]_vars

\* -------------------------------------- the filter of the crawler on its own
\* The options of the [Crawler] section the filter, the sort and the head
\* read: one keyword (the empty one for an empty option), in any case.
CrawlerOptions ==
    /\ k_min_view_count \in {0, 2}
    /\ k_max_results \in 0..MaxResults
    /\ \E keyword \in Keywords : k_exclude = <<keyword>>
    /\ k_sort_by \in {"viewCount", "engagement", "relevance"}
    /\ k_tie \in {"kept", "swapped"}
    /\ k_sort_by = "relevance" => k_tie = "kept"

\* run_crawler after _get_video_details: one search page has brought the
\* ids 1..n and the details of all of them have come, in either order.
InitFilter ==
    /\ PipelineUnused
    /\ PartitionIdle
    /\ MediaIdle
    /\ AppendixIdle
    /\ RoundTripIdle
    /\ CommentsIdle
    /\ RaceIdle
    /\ TwiceIdle
    /\ PagingIdle
    /\ AcquireIdle
    /\ CrawlerOptions
    /\ \E n \in 1..MaxDetails, mult \in 0..MaxMult, reversed \in BOOLEAN :
         LET video_ids == IF reversed THEN Reverse(Ascending(1..n))
                          ELSE Ascending(1..n)
         IN  /\ k_video_ids = 1..n
             /\ k_video_details =
                    [m \in 1..n |-> CatalogueVideo(video_ids[m], mult)]
    /\ k_next_page_token = NoneVal
    /\ k_requests = 1
    /\ k_last = "page"
    /\ k_df = <<>>
    /\ k_saved = <<>>
    /\ k_written = FALSE
    /\ k_pc = "details"

NextFilter == ProcessAndSave

SpecFilter == InitFilter /\ [][NextFilter]_vars

\* ====================================================================
\* Properties
\* ====================================================================
Stage1Pcs == {"batch", "flash", "returned"}
CleanupPcs == {"cleanup_audio", "cleanup_video", "cleanup_cache"}
Batches == 1..num_batches

\* The batches among 1..n that have put a summary into all_summaries.
Summarised(n) == {m \in 1..n : status[m] \in {"hit", "ok"}}
\* The summary batch n has put into all_summaries.
SummaryOf(n) == all_summaries[Cardinality(Summarised(n))]
\* An upload or a Stage-1 generative call was issued for batch n in this run.
Attempted(n) == uploads[n] > 0 \/ gens[n] > 0
\* No network call was issued for batch n in this run.
NoCalls(n) == uploads[n] = 0 /\ ~polls[n] /\ gens[n] = 0

\* C1: a batch index whose cache entry exists when it is reached (entries
\* appear only through the batch's own iteration, so: exists when the run
\* starts) gets no upload, no status poll and no generative call, and once its
\* iteration is over the cached text is its summary; any index gets at most
\* one Stage-1 generative call in a run.
C1_CacheHitShortCircuits ==
    \A n \in Batches :
        /\ (run >= 1 /\ cacheAtStart[n] # Absent) =>
              /\ NoCalls(n)
              /\ n <= i => (status[n] = "hit" /\ SummaryOf(n) = cacheAtStart[n])
        /\ gens[n] <= 1

\* A run with a cache hit for one batch and uploads and a generative call for
\* another.
C1_Witness ==
    \E n, m \in Batches :
        status[n] = "hit" /\ status[m] = "ok" /\ uploads[m] > 0 /\ gens[m] = 1

SecondPass ==
    /\ pc \in Stage1Pcs
    /\ lastStage1Cache # NoPass
    /\ cacheAtStart = lastStage1Cache

\* The pass has issued no upload and no generative call, and every batch
\* it has got through was a cache hit.
AllHitsSoFar ==
    \A n \in Batches :
        /\ uploads[n] = 0 /\ gens[n] = 0
        /\ n <= i => status[n] = "hit"

\* The original reading of C3: after any completed Stage-1 pass, a second
\* pass over the unchanged cache issues no upload and no generative call.
C3_Original == SecondPass => AllHitsSoFar

\* C3 (amended): after a Stage-1 pass that returned with a cache entry for
\* every batch index (no batch failed), a second pass over the unchanged
\* cache issues no upload and no generative call: every batch is a hit.
C3_Idempotence ==
    (SecondPass /\ \A n \in Batches : lastStage1Cache[n] # Absent) => AllHitsSoFar

\* The second pass has got through all of two or more batches, all hits.
C3_Witness ==
    /\ SecondPass
    /\ num_batches >= 2
    /\ pc = "batch" /\ i = num_batches
    /\ \A n \in Batches : lastStage1Cache[n] # Absent /\ status[n] = "hit"

\* Batch n was attempted (an upload or a generative call was issued for it)
\* and its iteration, or the run, is over without a summary for it.
FailedBatch(n) ==
    /\ Attempted(n)
    /\ status[n] # "ok"
    /\ n <= i \/ pc = "done"

\* C4: a batch that fails (an upload raises, a file is seen in a state that
\* is neither PROCESSING nor ACTIVE, or the generative call raises or yields
\* nothing) gets no cache entry and adds no summary to the result, and every
\* later batch index is still processed: when Stage-1 is over each later
\* index was a cache hit or was submitted.
C4_FailureIsolation ==
    \A n \in Batches :
        FailedBatch(n) =>
            /\ status[n] = "failed"
            /\ cache[n] = Absent
            /\ Len(all_summaries) = Cardinality(Summarised(num_batches))
            /\ pc \notin Stage1Pcs =>
                 \A m \in (n + 1)..num_batches :
                     status[m] = "hit" \/ Attempted(m)

\* A finished run in which a batch failed on a FAILED upload and a later
\* batch was summarised and cached.
C4_Witness ==
    \E n, m \in Batches :
        /\ n < m /\ pc = "done"
        /\ status[n] = "failed" /\ badState[n]
        /\ status[m] = "ok" /\ cache[m] # Absent

\* The Stage-2 generative call of this run was issued and raised.
Stage2CallFailed == stage2Calls > 0 /\ final_report_content = NoneVal

\* C5: when the Stage-2 generative call fails, the run is over without a
\* report written and without anything removed: cache entries, directories,
\* media files and report are exactly as they were when Stage-2 started.
C5_FatalPathKeepsFiles ==
    (run >= 1 /\ Stage2CallFailed) =>
        /\ pc = "done" /\ outcome = "returned"
        /\ fsVars = fsAtStage2
        /\ removed = {}

\* Stage-2 failed in a run that has cache entries and both media directories.
C5_Witness ==
    /\ Stage2CallFailed /\ pc = "done"
    /\ audio_dir /\ video_dir /\ mp3Files # {} /\ mp4Files # {}
    /\ \E n \in Batches : cache[n] # Absent

\* The report file holds what this run's Stage-2 returned.
ReportWritten == Truthy(final_report_content) /\ report = final_report_content

\* Something this run started with, or wrote, has been removed.
SomethingRemoved ==
    /\ run >= 1
    /\ \/ removed # {}
       \/ <<cache_dir, audio_dir, video_dir, mp3Files, mp4Files>>
            # <<fsAtStart[2], fsAtStart[3], fsAtStart[4], fsAtStart[5], fsAtStart[6]>>
       \/ \E n \in Batches :
            cache[n] = Absent /\ (cacheAtStart[n] # Absent \/ status[n] = "ok")

\* Stage-2 gave a text and _generate_report_file raised.
AssemblyFailed ==
    /\ Truthy(final_report_content)
    /\ pc = "done" /\ outcome \in {"critical", "crashed"}

\* C6: _cleanup is entered, and anything is removed, only when the report
\* file has been written by _generate_report_file; when report assembly fails
\* nothing is removed.
C6_CleanupOnlyAfterReport ==
    /\ (SomethingRemoved \/ pc \in CleanupPcs) => ReportWritten
    /\ AssemblyFailed => ~SomethingRemoved

\* A finished run that removed all three directories, its report written.
C6_Witness ==
    /\ pc = "done" /\ removed = {"audio", "video", "cache"}
    /\ ReportWritten

\* The previous run got through Stage-1 with exactly one failed batch, the
\* other batches (at least one) summarised.
PrevOneFailed ==
    /\ run >= 2
    /\ \A n \in Batches : prevStatus[n] \in {"hit", "ok", "failed"}
    /\ Cardinality({n \in Batches : prevStatus[n] = "failed"}) = 1
    /\ \E n \in Batches : prevStatus[n] # "failed"

\* C7: after a run in which one batch failed in Stage-1 and the others
\* succeeded, the next run issues uploads and generative calls only for the
\* batch that failed: every batch that succeeded is a cache hit.
C7_RerunOnlyFailedBatch ==
    PrevOneFailed =>
        \A n \in Batches :
            prevStatus[n] # "failed" =>
                /\ NoCalls(n)
                /\ n <= i => status[n] = "hit"

\* What has been recorded for batch n in this run.
Events(n) == <<status[n], uploads[n], polls[n], gens[n]>>

\* One step of a run: the loop index never goes back; whatever the step
\* records, it records for the batch at hand, all earlier batches being done
\* with; and a Stage-2 call is issued only when every batch index was a hit
\* or was written to the cache, or has had its one failed attempt.
C8_Step ==
    run' = run =>
        /\ i' >= i
        /\ \A n \in BatchNums :
             Events(n)' # Events(n) =>
                /\ pc \in Stage1Pcs
                /\ n = batch_num /\ n <= num_batches
                /\ \A m \in 1..(n - 1) : status[m] # "pending"
        /\ stage2Calls' > stage2Calls =>
             \A n \in Batches :
                \/ status[n] \in {"hit", "ok"} /\ cache[n] # Absent
                \/ status[n] = "failed" /\ cache[n] = Absent /\ gens[n] <= 1

\* C8: batches are handled strictly in ascending index order (every event of
\* batch n happens while n is the batch at hand, and the index only grows),
\* and Stage-2 is called only after every batch index has a cache entry or
\* has completed its single failed attempt.
C8_Ordering == [][C8_Step]_vars

\* Stage-2 called in a run of several batches, one failed, one summarised.
C8_Witness ==
    /\ stage2Calls = 1
    /\ \E n, m \in Batches : status[n] = "failed" /\ status[m] = "ok"

\* ------------------------------------------------------------ SpecPartition
RECURSIVE Flatten(_)
\* The batches one after the other.
Flatten(batches) ==
    IF batches = <<>> THEN <<>> ELSE Head(batches) \o Flatten(Tail(batches))

\* ceil(n / bs): the least k with k * bs >= n.
CeilDiv(n, bs) == CHOOSE k \in 0..n : k * bs >= n /\ (k - 1) * bs < n

\* The loop of _process_batches has no index left.
Partitioned == Len(p_batches) = NumBatches(Len(p_videos), p_batch_size)

\* C9: for a corpus of N >= 1 videos and a batch size >= 1 the slices are
\* non-empty, of size batch_size except possibly the last, and follow one
\* another in corpus order; when the loop is over there are ceil(N/batch_size)
\* of them and together they are the corpus: the sizes sum to N and every
\* video is in exactly one batch.
C9_Partition ==
    LET n == Len(p_videos)
        nb == CeilDiv(n, p_batch_size)
        flat == Flatten(p_batches)
    IN  /\ \A k \in 1..Len(p_batches) :
              /\ p_batches[k] # <<>>
              /\ k <= nb
              /\ Len(p_batches[k]) =
                   IF k < nb THEN p_batch_size ELSE n - (nb - 1) * p_batch_size
        /\ flat = SubSeq(p_videos, 1, Len(flat))
        /\ Partitioned => (Len(p_batches) = nb /\ flat = p_videos)

\* A corpus sliced into several batches, the last one shorter.
C9_Witness ==
    /\ Partitioned
    /\ Len(p_batches) >= 2
    /\ Len(p_batches[Len(p_batches)]) < p_batch_size

\* Batch n is the batch _run_flash_analysis is working on.
InFlash(n) == pc \in {"flash", "returned"} /\ n = batch_num

\* C10: for an uncached batch, a status poll is issued only when every media
\* file of the batch has been uploaded (and no upload follows), the
\* generative call only when the wait is over for every uploaded file, each
\* seen ACTIVE; a batch with a file seen in a state other than PROCESSING or
\* ACTIVE gets no generative call.
C10_AllActiveBeforeGenerate ==
    \A n \in Batches :
        /\ InFlash(n) => uploads[n] <= Len(media_files)
        /\ (InFlash(n) /\ polls[n]) =>
              uploads[n] = Len(media_files) /\ uploaded_files = Len(media_files)
        /\ (InFlash(n) /\ gens[n] > 0) =>
              uploaded_files = Len(media_files) /\ polled_files = uploaded_files
        /\ gens[n] > 0 => (uploads[n] > 0 <=> polls[n])
        /\ badState[n] => gens[n] = 0

\* The generative call of a batch with two media files, both seen ACTIVE.
C10_Witness ==
    /\ pc = "returned"
    /\ gens[batch_num] = 1
    /\ Len(media_files) >= 2
    /\ uploads[batch_num] = Len(media_files) /\ polled_files = Len(media_files)
    /\ polls[batch_num] /\ ~badState[batch_num]

\* The texts the Stage-1 generative calls of the runs so far have returned.
Stage1Texts == {ResponseText(r) : r \in 1..run}

\* C11: a cache entry that exists holds the complete text a Stage-1
\* generative call returned for the batch, never an empty or truncated one,
\* also after a run that was killed at any point; so no run takes an empty
\* entry as a cache hit.
C11_NoPartialEntry ==
    /\ \A n \in BatchNums : cache[n] # Absent => cache[n] \in Stage1Texts
    /\ \A n \in Batches : (status[n] = "hit" /\ n <= i) => Truthy(SummaryOf(n))

\* ---------------------------------------------------------------- SpecMedia
\* The video ids of the media references, in the order of the references.
RefIds == [k \in 1..Len(m_refs) |-> m_refs[k][2]]
HasMedia(v) == v \in m_mp4 \/ v \in m_mp3

\* C12: every reference is the .mp4 of an id whose .mp4 exists, or the .mp3
\* of an id whose .mp3 exists and whose .mp4 does not; an id with either file
\* has exactly one reference and an id with neither has none (and the loop
\* ends without an error); the references follow the order of the ids.
C12_MediaPrecedence ==
    m_done =>
        /\ \A k \in 1..Len(m_refs) :
              \/ m_refs[k][1] = "mp4" /\ m_refs[k][2] \in m_mp4
              \/ /\ m_refs[k][1] = "mp3"
                 /\ m_refs[k][2] \in m_mp3 /\ m_refs[k][2] \notin m_mp4
        /\ \A j \in 1..Len(m_ids) :
              Cardinality({k \in 1..Len(m_refs) : m_refs[k][2] = m_ids[j]})
                 = IF HasMedia(m_ids[j]) THEN 1 ELSE 0
        /\ RefIds = SelectSeq(m_ids, HasMedia)

\* A batch with an id that has both files, one with the .mp3 only and one
\* with no file, resolved.
C12_Witness ==
    /\ m_done
    /\ \E a, b, c \in 1..Len(m_ids) :
          /\ m_ids[a] \in m_mp4 /\ m_ids[a] \in m_mp3
          /\ m_ids[b] \in m_mp3 /\ m_ids[b] \notin m_mp4
          /\ ~HasMedia(m_ids[c])
    /\ Len(m_refs) = 2

\* One step of _cleanup on directory `name`: if the directory exists its
\* removal is attempted (it is removed, or the error is swallowed and the
\* directory stays), if not nothing happens; either way _cleanup goes on
\* with `nxt`.
RemovalStep(name, exists, existsAfter, nxt) ==
    /\ pc' = nxt
    /\ IF exists
       THEN \/ ~existsAfter /\ removed' = removed \cup {name}
            \/ existsAfter /\ removed' = removed
       ELSE ~existsAfter /\ removed' = removed

\* The audio and video directories and their files.
AudioState == <<audio_dir, mp3Files>>
VideoState == <<video_dir, mp4Files>>
CacheState == <<cache_dir, cache>>

C13_Step ==
    /\ pc = "cleanup_audio" =>
          /\ RemovalStep("audio", audio_dir, audio_dir', "cleanup_video")
          /\ UNCHANGED <<VideoState, CacheState, outcome>>
    /\ pc = "cleanup_video" =>
          /\ RemovalStep("video", video_dir, video_dir', "cleanup_cache")
          /\ UNCHANGED <<AudioState, CacheState, outcome>>
    /\ pc = "cleanup_cache" =>
          /\ RemovalStep("cache", cache_dir, cache_dir', "done")
          /\ UNCHANGED <<AudioState, VideoState>>
          /\ outcome' = "returned"

\* C13: _cleanup takes the audio, the video and the cache directory in that
\* order; the removal of each one that exists is attempted whatever happened
\* to the ones before, a removal error leaves the others untouched, and
\* _cleanup always gets to its end, run_pipeline returning normally.
C13_CleanupIndependence == [][C13_Step]_vars

\* The removal of the audio directory failed, the video and the cache
\* directory were removed after it.
C13_Witness ==
    /\ pc = "done" /\ outcome = "returned"
    /\ fsAtStart[3] /\ audio_dir
    /\ removed = {"video", "cache"}

\* The run has entered _cleanup: it is in it, or it is over after a Stage-2
\* text and a report assembly that did not raise.
ReachedCleanup ==
    \/ pc \in CleanupPcs
    \/ pc = "done" /\ outcome = "returned" /\ Truthy(final_report_content)

\* C14: in a run that has entered _cleanup the report file exists and holds
\* the whole report of this run, from the first step of _cleanup to the end
\* of the run, whether the removals succeed or fail.
C14_ReportSurvivesCleanup ==
    ReachedCleanup =>
        /\ report # Absent /\ report # EmptyText
        /\ report = final_report_content
        /\ final_report_content = ResponseText(run)

\* A finished run whose _cleanup removed the audio directory and failed on
\* the video and the cache directory, its report in place.
C14_Witness ==
    /\ pc = "done" /\ ReachedCleanup
    /\ removed = {"audio"} /\ video_dir /\ cache_dir
    /\ report = ResponseText(run)

\* C15: with no video row or no comment row (file missing, unreadable or
\* without rows) the run returns from run_pipeline normally right after
\* loading: no upload, poll or generative call, no cache entry read or
\* written, no report written, nothing removed; the files are as they were
\* when the run started.
C15_EmptyCorpusReturns ==
    (run >= 1 /\ (videos_df = <<>> \/ comments_empty)) =>
        /\ pc \in {"load", "done"}
        /\ outcome = IF pc = "done" THEN "returned" ELSE "none"
        /\ \A n \in BatchNums : NoCalls(n) /\ status[n] = "pending"
        /\ stage2Calls = 0
        /\ all_summaries = <<>>
        /\ fsVars = fsAtStart
        /\ removed = {}

\* A second run over videos without comments, both media directories in
\* place, has returned.
C15_Witness ==
    /\ run = 2 /\ pc = "done" /\ outcome = "returned"
    /\ videos_df # <<>> /\ comments_empty
    /\ mp3Files # {} /\ mp4Files # {}

\* C16: a videos CSV that lacks a column the pipeline reads never gets past
\* loading: the run stops there with a diagnostic (it does not crash), having
\* tested or read no cache entry and issued no upload, poll or generative
\* call.
C16_RequiredColumns ==
    (run >= 1 /\ missing_column # "none") =>
        /\ pc \in {"load", "done"}
        /\ outcome # "crashed"
        /\ \A n \in BatchNums : NoCalls(n) /\ status[n] = "pending"
        /\ stage2Calls = 0

\* One step, within a run or from one run to the next: a cache entry changes
\* only by being written where there was none (by the iteration of its own
\* batch, which has not written it before in this run) or by disappearing in
\* the last step of _cleanup; the media directories and their files change
\* only in the step of _cleanup that removes them, the report of the run
\* being written.
C17_Step ==
    /\ \A n \in BatchNums :
          cache'[n] # cache[n] =>
             \/ /\ cache[n] = Absent
                /\ pc = "returned" /\ n = batch_num
                /\ status[n] = "pending" /\ status'[n] = "ok"
                /\ cache'[n] = summary
             \/ /\ cache'[n] = Absent
                /\ pc = "cleanup_cache"
    /\ AudioState' # AudioState => (pc = "cleanup_audio" /\ ReportWritten)
    /\ VideoState' # VideoState => (pc = "cleanup_video" /\ ReportWritten)

\* C17: over any sequence of runs a cache entry is written only when there
\* is none for its index (at most once per run, an existing entry is never
\* overwritten), entries disappear only through _cleanup, and media files are
\* deleted only by _cleanup in a run whose report was written.
C17_Lifecycle == [][C17_Step]_vars

\* The second run is over: it read the entry the first run wrote, wrote
\* another one, and its _cleanup removed the media but not the cache.
C17_Witness ==
    /\ run = 2 /\ pc = "done"
    /\ \E n, m \in Batches :
          /\ status[n] = "hit" /\ cache[n] = ResponseText(1)
          /\ status[m] = "ok" /\ cache[m] = ResponseText(2)
    /\ "audio" \in removed /\ "cache" \notin removed

\* _process_batches has returned and _synthesize_report has been called.
Stage2Entered == run >= 1 /\ fsAtStage2 # <<>>

\* The summary of batch n in this run: the entry the run found for a hit,
\* the text of this run's Stage-1 call for a batch that succeeded.
ExpectedSummary(n) ==
    IF status[n] = "hit" THEN cacheAtStart[n] ELSE ResponseText(run)

\* C18: the summaries _synthesize_report is called with are, in ascending
\* batch order, one for each batch that was a cache hit (the cached text) or
\* whose Stage-1 call succeeded in this run (the text it returned), and none
\* for a batch that failed.
C18_Stage2Input ==
    Stage2Entered =>
        /\ \A n \in Batches : status[n] \in {"hit", "ok", "failed"}
        /\ Len(all_summaries) = Cardinality(Summarised(num_batches))
        /\ \A n \in Summarised(num_batches) : SummaryOf(n) = ExpectedSummary(n)

\* Stage-2 called with a cached summary of an earlier run after a fresh one,
\* a failed batch among them.
C18_Witness ==
    /\ Stage2Entered /\ stage2Calls = 1
    /\ \E n, m, f \in Batches :
          /\ n < m
          /\ status[n] = "ok" /\ status[m] = "hit" /\ status[f] = "failed"
          /\ all_summaries = <<ResponseText(2), ResponseText(1)>>

\* In this run a batch has yielded a summary (cached or fresh) and another
\* batch has failed.
PartialStage1 ==
    \E n, m \in Batches : status[n] \in {"hit", "ok"} /\ status[m] = "failed"

RECURSIVE SumUpTo(_, _)
\* f[1] + ... + f[n]
SumUpTo(f, n) == IF n = 0 THEN 0 ELSE f[n] + SumUpTo(f, n - 1)

\* Stage-1 generative calls issued in this run.
Stage1Calls == SumUpTo(gens, MaxVideos)
\* The batch indices without a cache entry when the run started.
UncachedAtStart == {n \in Batches : cacheAtStart[n] = Absent}

\* C20: a run issues at most one Stage-2 generative call, with no media
\* attached, and at most (batch indices without a cache entry at the start
\* of the run) + 1 generative calls in all.
C20_CallBudget ==
    /\ stage2Calls <= 1
    /\ stage2_media = <<>>
    /\ Stage1Calls + stage2Calls <= Cardinality(UncachedAtStart) + 1

\* A run over a corpus with media that used its whole budget: a cache hit,
\* one Stage-1 call for each uncached batch, and the Stage-2 call.
C20_Witness ==
    /\ stage2Calls = 1
    /\ mp4Files # {} /\ mp3Files # {}
    /\ \E n \in Batches : status[n] = "hit"
    /\ Cardinality(UncachedAtStart) >= 1
    /\ Stage1Calls = Cardinality(UncachedAtStart)

\* ----------------------------------------------------------------- SpecLive
\* _wait_for_files_active is waiting for the file at hand.
WaitingForFile ==
    /\ pc = "flash"
    /\ uploaded_files = Len(media_files)
    /\ polled_files < uploaded_files

\* A step taken while waiting: the run stays at its batch (no other batch,
\* no Stage-2, no report, no cleanup), and the wait for the file ends only
\* with the file seen ACTIVE (on to the next file) or seen in a failed state
\* (the batch has failed).
C21_Step ==
    WaitingForFile =>
        /\ UNCHANGED <<run, i, all_summaries, status, uploads, gens, fsVars,
                       stage2Vars, removed, outcome>>
        /\ \/ /\ pc' = "flash"
              /\ polled_files' \in {polled_files, polled_files + 1}
              /\ badState' = badState
           \/ /\ pc' = "returned"
              /\ summary' = NoneVal
              /\ badState'[batch_num]

\* C21: while a file of the batch reports PROCESSING the run stays in the
\* wait of that batch, which ends only when the file is seen ACTIVE or in a
\* failed state; and when no file reports PROCESSING forever and every
\* external call returns, every run that has started terminates.
C21_PollLoopTermination ==
    /\ [][C21_Step]_vars
    /\ (pc = "load") ~> (pc = "done")

\* The wait for the second file of a batch, the first one seen ACTIVE.
C21_Witness ==
    /\ WaitingForFile
    /\ polls[batch_num]
    /\ polled_files = 1

\* ---------------------------------------------------------------------- C22
\* The rows of a sequence of rows, as a set.
RowSet(rows) == {rows[k] : k \in 1..Len(rows)}

\* The rows are listed from the most viewed to the least viewed.
NonIncreasing(rows) ==
    \A k \in 1..(Len(rows) - 1) : rows[k].views >= rows[k + 1].views

\* C22: the appendix has exactly min(15, N) rows; they are rows of the
\* corpus, each listed once; no row left out has more views than a row
\* listed; and they are listed in non-increasing order of views.  The
\* appendix is a function of the corpus alone: neither the batch size nor
\* the cache takes part in it.
C22_AppendixRanking ==
    a_done =>
        /\ Len(a_appendix) = Min(TopRows, Len(a_videos))
        /\ RowSet(a_appendix) \subseteq RowSet(a_videos)
        /\ Cardinality(RowSet(a_appendix)) = Len(a_appendix)
        /\ \A r \in RowSet(a_videos) \ RowSet(a_appendix) :
               \A t \in RowSet(a_appendix) : r.views <= t.views
        /\ NonIncreasing(a_appendix)

\* A corpus of more than 15 rows, not sorted by views: the appendix has 15
\* rows and leaves out a row with fewer views than every row listed.
C22_Witness ==
    /\ a_done
    /\ Len(a_videos) > TopRows
    /\ Len(a_appendix) = TopRows
    /\ ~NonIncreasing(a_videos)
    /\ \E r \in RowSet(a_videos) \ RowSet(a_appendix) :
           \A t \in RowSet(a_appendix) : r.views < t.views

\* ---------------------------------------------------------------------- C23
\* C23: the text stored in the cache entry is the text the
\* Stage-1 call returned, and the summary a later run gets on the cache hit
\* is the summary the producing run appended.
C23_CacheRoundTrip ==
    /\ t_pc \in {"written", "read"} => t_file = t_summary
    /\ t_pc = "read" => t_read = t_appended

\* ---------------------------------------------------------------------- C24
\* The ids of the videos of batch n (1-based): the rows at the positions
\* (n - 1) * batch_size + 1 .. n * batch_size of the corpus.
IdsOfBatch(n) ==
    {c_videos[j] : j \in {j \in 1..Len(c_videos) :
                              (j - 1) \div c_batch_size = n - 1}}

\* The batches whose selection holds the comment c.
BatchesOf(c) == {n \in 1..Len(c_selected) : c \in Elems(c_selected[n])}

\* C24: the comments passed to Stage-1 for a batch are exactly the comments
\* whose id_video is the id of a video of that batch, each once and in the
\* order of the frame; a comment belongs to at most one batch, and to none
\* when its id_video is the id of no video of the corpus.
C24_CommentSelection ==
    /\ \A n \in 1..Len(c_selected) :
           /\ Elems(c_selected[n]) =
                  {c \in Elems(c_comments) : c.id_video \in IdsOfBatch(n)}
           /\ \A j, k \in 1..Len(c_selected[n]) :
                  j < k => c_selected[n][j].id < c_selected[n][k].id
    /\ \A c \in Elems(c_comments) :
           /\ Cardinality(BatchesOf(c)) <= 1
           /\ c.id_video \notin Elems(c_videos) => BatchesOf(c) = {}

\* Every batch of a corpus of two batches or more has been gone through:
\* a comment was selected for the second batch, another for none of them.
C24_Witness ==
    /\ Len(c_selected) = NumBatches(Len(c_videos), c_batch_size)
    /\ Len(c_selected) >= 2
    /\ c_selected[2] # <<>>
    /\ \E c \in Elems(c_comments) :
           c.id_video \notin Elems(c_videos) /\ BatchesOf(c) = {}

\* ---------------------------------------------------------------------- C25
\* The corpus was changed between two runs and batch n no longer holds the
\* videos it held before.
ContentChanged(n) ==
    /\ videos_before # NotChanged
    /\ BatchVideos(videos_before, batch_size, n - 1)
           # BatchVideos(videos_df, batch_size, n - 1)

\* C25: whatever the corpus now holds, a batch index of the run whose
\* iteration is over was a cache hit if and only if its entry existed when
\* the run started; an index with an entry gets no upload, no poll and no
\* generative call, and the text of the entry is its summary.
C25_PositionalCacheKey ==
    run >= 1 =>
        \A n \in Batches :
            /\ n <= i => (status[n] = "hit" <=> cacheAtStart[n] # Absent)
            /\ cacheAtStart[n] # Absent =>
                  /\ NoCalls(n)
                  /\ n <= i => SummaryOf(n) = cacheAtStart[n]

\* The second run, after the corpus was changed: a batch that holds other
\* videos than before is a cache hit, the text of the first run is its
\* summary, and the Stage-2 call has been issued with it.
C25_Witness ==
    /\ run = 2
    /\ stage2Calls = 1
    /\ \E n \in Batches :
           /\ ContentChanged(n)
           /\ status[n] = "hit"
           /\ NoCalls(n)
           /\ SummaryOf(n) = ResponseText(1)

\* ---------------------------------------------------------------------- C26
\* The Stage-1 generative calls issued for batch n by the runs together.
Calls(n) == q_gens[1][n] + q_gens[2][n]

\* C26: a run issues at most one Stage-1 generative call per batch index and
\* removes no directory while it is itself in Stage-1; so with a single run
\* no batch index gets two calls and no directory is removed during Stage-1.
\* With several runs both happen (C26_Witness).
C26_SingleRunSafe ==
    /\ \A p \in Procs : \A n \in BatchNums : q_gens[p][n] <= 1
    /\ Cardinality(q_runs) = 1 =>
          /\ \A n \in BatchNums : Calls(n) <= 1
          /\ \A p \in Procs : q_raced[p] = {}

\* Two runs: both have issued the Stage-1 call for the same batch index, and
\* one of them has removed the cache directory and a media directory while
\* the other, still in Stage-1, has not yet written its entry.
C26_Witness ==
    /\ Cardinality(q_runs) >= 2
    /\ \E n \in BatchNums : q_gens[1][n] = 1 /\ q_gens[2][n] = 1
    /\ \E p, o \in q_runs :
           /\ {"cache", "audio"} \subseteq q_raced[p]
           /\ q_pc[o] = "save"

FailedVideos ==
    UNION {Elems(BatchVideos(videos_df, batch_size, n - 1)) :
               n \in {m \in Batches : status[m] = "failed"}}

\* The original reading of C28: a run with a summarised and a failed batch
\* whose report was written ends with the cache directory and its entries
\* removed and no media file of a failed batch left.
C28_Original ==
    (pc = "done" /\ PartialStage1 /\ ReportWritten) =>
        /\ ~cache_dir /\ cache = NoCache
        /\ FailedVideos \cap (mp3Files \cup mp4Files) = {}

\* The directory `name` at the end of a run that went through _cleanup: it
\* was not there, or it was removed with all it held, or it is still there
\* (its rmtree raised OSError).
CleanedUp(name, existed, exists, empty) ==
    existed =>
        \/ name \in removed /\ ~exists /\ empty
        \/ name \notin removed /\ exists

C28_Step ==
    (pc = "report" /\ report' = final_report_content) => pc' = "cleanup_audio"

C28_AtEnd ==
    (pc = "done" /\ PartialStage1 /\ ReportWritten) =>
        /\ outcome = "returned"
        /\ CleanedUp("audio", fsAtStage2[3], audio_dir, mp3Files = {})
        /\ CleanedUp("video", fsAtStage2[4], video_dir, mp4Files = {})
        /\ CleanedUp("cache", fsAtStage2[2], cache_dir, cache = NoCache)

\* C28 (amended): once the report is written the run enters _cleanup, also
\* when batches failed in Stage-1; a run with a summarised and a failed
\* batch whose report was written returns after _cleanup, and each of the
\* audio, video and cache directories that existed is removed with all it
\* held (the entries of the batches that succeeded, the media files of the
\* failed ones) unless its rmtree raised OSError, in which case it is still
\* there.
C28_CleanupDespiteFailures ==
    /\ [][C28_Step]_vars
    /\ []C28_AtEnd

\* A finished run with a failed batch whose video had an .mp3 and a batch
\* whose entry this run wrote: the three directories are removed, the entry
\* and the .mp3 with them.
C28_Witness ==
    /\ pc = "done" /\ PartialStage1 /\ ReportWritten
    /\ removed = {"audio", "video", "cache"}
    /\ FailedVideos \cap fsAtStart[5] # {}
    /\ \E n \in Batches : status[n] = "ok"
    /\ cache = NoCache /\ mp3Files = {}

\* ---------------------------------------------------------------------- C29
\* No batch of the run had a cache entry and every batch has failed.
AllBatchesFailed ==
    /\ run >= 1
    /\ num_batches >= 1
    /\ \A n \in Batches : cacheAtStart[n] = Absent /\ status[n] = "failed"

\* C29: when no batch index had a cache entry and every Stage-1 attempt has
\* failed, the run has no summary, issues no Stage-2 generative call and
\* returns: no report is written, no cache entry either, and no directory or
\* file is removed.
C29_AllBatchesFailed ==
    AllBatchesFailed =>
        /\ pc \in {"batch", "stage1_returned", "done"}
        /\ pc = "done" => outcome = "returned"
        /\ all_summaries = <<>>
        /\ stage2Calls = 0 /\ final_report_content = NoneVal
        /\ fsVars = fsAtStart
        /\ removed = {}

\* A finished run of two batches or more, all failed, one after its
\* generative call was issued and one on a file neither PROCESSING nor
\* ACTIVE; the media files are still there.
C29_Witness ==
    /\ AllBatchesFailed /\ pc = "done"
    /\ num_batches >= 2
    /\ \E n, m \in Batches : gens[n] = 1 /\ badState[m]
    /\ mp3Files # {} /\ mp4Files # {}

\* ---------------------------------------------------------------------- C30
\* C30: in a run that gets to Stage-1 while the Stage-1 prompt template
\* cannot be opened, the first batch index without a cache entry and every
\* index after it, cached or not, are never processed: no upload, no poll,
\* no generative call, no summary; the run ends there with an error, no
\* Stage-2 call is issued, no report is written, nothing is removed and the
\* cache entries are what they were.
C30_PromptTemplateNotRecovered ==
    (run >= 1 /\ ~flash_prompt_ok /\ ~comments_empty) =>
        \A n \in Batches :
            cacheAtStart[n] = Absent =>
                /\ \A m \in n..num_batches : status[m] = "pending" /\ NoCalls(m)
                /\ Len(all_summaries) < n
                /\ pc \in {"load", "batch", "done"}
                /\ pc = "done" => outcome \in {"critical", "crashed"}
                /\ stage2Calls = 0 /\ final_report_content = NoneVal
                /\ fsVars = fsAtStart
                /\ removed = {}

\* A run of three batches with entries for the first and the third: the
\* first was a cache hit, the template was found missing at the second, and
\* the run is over with the third never looked at.
C30_Witness ==
    /\ pc = "done" /\ outcome = "critical" /\ ~flash_prompt_ok
    /\ num_batches = 3
    /\ cacheAtStart[1] # Absent /\ cacheAtStart[2] = Absent /\ cacheAtStart[3] # Absent
    /\ status = [n \in BatchNums |-> IF n = 1 THEN "hit" ELSE "pending"]
    /\ cache = cacheAtStart

\* ---------------------------------------------------------------------- C31
\* Back in _process_batches with what _run_flash_analysis returned for the
\* batch at hand.
FlashReturned == pc = "returned"

\* One step of C31: the empty text is neither written nor appended and the
\* batch counts as failed; an entry is written exactly when a non-empty text
\* came back, and it is the entry of the batch at hand; and a new run starts
\* with no entry for the batches that failed in the run before.
C31_Step ==
    /\ (FlashReturned /\ summary = EmptyText) =>
           /\ cache' = cache
           /\ all_summaries' = all_summaries
           /\ status'[batch_num] = "failed"
    /\ FlashReturned =>
           /\ (cache' # cache) <=> (summary # NoneVal /\ summary # EmptyText)
           /\ \A n \in BatchNums \ {batch_num} : cache'[n] = cache[n]
           /\ cache' # cache => cache'[batch_num] = summary
    /\ run' = run + 1 =>
           \A n \in Batches : status[n] = "failed" => ~CacheExists(n)'

\* C31: when the Stage-1 generative call of a batch returns the empty string,
\* no cache entry is written for the batch and no summary is appended; a
\* cache entry is written if and only if the returned text is non-empty; a
\* failed batch has no entry for the rest of the run and when the next run
\* starts, so the next run processes it again.
C31_EmptyResponseIsFailure ==
    /\ [][C31_Step]_vars
    /\ [](\A n \in Batches : status[n] = "failed" => ~CacheExists(n))

\* The second run has got the empty text for a batch that failed in the run
\* before: the batch has no entry and its generative call was issued again.
C31_Witness ==
    /\ run = 2
    /\ FlashReturned
    /\ summary = EmptyText
    /\ prevStatus[batch_num] = "failed"
    /\ gens[batch_num] = 1
    /\ ~CacheExists(batch_num)
    /\ all_summaries # <<>>

\* ---------------------------------------------------------------------- C32
\* The Stage-2 generative call of this run was issued and gave no text: the
\* empty string, or None after an exception.
Stage2NoText ==
    /\ run >= 1
    /\ stage2Calls > 0
    /\ final_report_content \in {EmptyText, NoneVal}

\* The step in which the Stage-2 generative call gives no text ends the run
\* and touches no file.
C32_Step ==
    (stage2Calls' = stage2Calls + 1 /\ final_report_content' \in {EmptyText, NoneVal}) =>
        /\ pc' = "done"
        /\ outcome' = "returned"
        /\ fsVars' = fsVars

\* C32: when the Stage-2 generative call returns the empty string or fails,
\* run_pipeline returns: the report file is not written (it is what it was
\* when Stage-2 started, absent if it was absent), no directory is removed
\* and _cleanup is not entered.
C32_EmptyStage2IsFailure ==
    /\ [][C32_Step]_vars
    /\ [](Stage2NoText =>
            /\ pc = "done"
            /\ report = fsAtStage2[7]
            /\ <<cache_dir, audio_dir, video_dir>>
                 = <<fsAtStage2[2], fsAtStage2[3], fsAtStage2[4]>>
            /\ removed = {})

\* Stage-2 returned the empty string in a first run that has summaries in
\* the cache and both media directories: no report, everything in place.
C32_Witness ==
    /\ Stage2NoText
    /\ final_report_content = EmptyText
    /\ run = 1
    /\ pc = "done"
    /\ report = Absent
    /\ cache_dir /\ audio_dir /\ video_dir
    /\ \E n \in Batches : CacheExists(n)

\* ---------------------------------------------------------------------- C33
\* None of the videos of batch n had an .mp4 or an .mp3 file when the run
\* started (Stage-1 deletes and downloads nothing).
NoMedia(n) ==
    Elems(BatchVideos(videos_df, batch_size, n - 1))
        \cap (fsAtStart[5] \cup fsAtStart[6]) = {}

\* One step of C33 for a batch without media: from inside
\* _run_flash_analysis the only step is the generative call, and a non-empty
\* text that came back is written to the batch's entry and appended.
C33_Step ==
    /\ (pc = "flash" /\ NoMedia(batch_num)) =>
           /\ gens'[batch_num] = gens[batch_num] + 1
           /\ uploads' = uploads /\ polls' = polls
    /\ (pc = "returned" /\ NoMedia(batch_num) /\ summary = ResponseText(run)) =>
           /\ cache' = WriteCache(cache, batch_num, summary)
           /\ all_summaries' = AppendSummary(all_summaries, summary)

\* C33: for an uncached batch none of whose videos has a media file the run
\* issues no upload and no status poll, and the batch is not given up: once
\* its iteration is over exactly one Stage-1 generative call has been issued
\* for it, with no media, and if the call gave a text the batch's cache entry
\* holds it.
C33_NoMediaStillSubmitted ==
    /\ [][C33_Step]_vars
    /\ [](run >= 1 =>
            \A n \in Batches :
                NoMedia(n) =>
                    /\ uploads[n] = 0 /\ ~polls[n]
                    /\ (pc = "flash" /\ batch_num = n) => media_files = <<>>
                    /\ status[n] \in {"ok", "failed"} => gens[n] = 1
                    /\ (status[n] = "ok" /\ pc \in Stage1Pcs) =>
                           cache[n] = ResponseText(run))

\* A batch without media and a batch with media have both been summarised
\* in this run: the first with a generative call and no upload, the second
\* after an upload.
C33_Witness ==
    /\ pc \in Stage1Pcs
    /\ \E n, m \in Batches :
          /\ NoMedia(n) /\ status[n] = "ok"
          /\ gens[n] = 1 /\ uploads[n] = 0 /\ ~polls[n]
          /\ cache[n] = ResponseText(run)
          /\ ~NoMedia(m) /\ status[m] = "ok" /\ uploads[m] > 0

\* ---------------------------------------------------------------------- C34
\* `short` is the beginning of `long`.
IsPrefix(short, long) ==
    /\ Len(short) <= Len(long)
    /\ SubSeq(long, 1, Len(short)) = short

\* One step of C34: a page is requested only while fewer than max_comments
\* comments are collected, the response before (if any) had a nextPageToken
\* and no request has failed; a failed request ends the paging with the
\* comments collected so far, none lost; what is collected only grows.
C34_Step ==
    /\ f_requests' # f_requests =>
           /\ f_requests' = f_requests + 1
           /\ f_pc = "paging"
           /\ Len(f_comments) < f_max_comments
           /\ f_last # "error"
           /\ f_last = "page" => f_next_page_token \notin {NoneVal, EmptyText}
    /\ IsPrefix(f_comments, f_comments')
    /\ f_last' = "error" => f_pc' = "returned"
    /\ f_pc = "returned" => UNCHANGED pagingVars

\* C34: _fetch_comments_for_video never holds, and so never returns, more
\* than max_comments comments (max_comments >= 1); it requests no further
\* page once max_comments comments are collected or a response has no
\* nextPageToken; an error ends the paging and the comments collected so far
\* are returned.
C34_PagingBound ==
    /\ [][C34_Step]_vars
    /\ [](/\ Len(f_comments) <= f_max_comments
          /\ f_count = Len(f_comments)
          /\ (f_last = "page" /\ Len(f_comments) = f_max_comments) => f_pc = "returned"
          /\ (f_last = "page" /\ f_next_page_token \in {NoneVal, EmptyText})
                 => f_pc = "returned")

\* The paging has returned after two or more requests with exactly
\* max_comments comments, the last of them the first item of the last page,
\* although the last response had a nextPageToken.
C34_Witness ==
    /\ f_pc = "returned"
    /\ f_requests >= 2
    /\ f_max_comments >= 2
    /\ Len(f_comments) = f_max_comments
    /\ f_last = "page"
    /\ f_next_page_token = f_requests
    /\ f_comments[Len(f_comments)] = <<f_requests, 1>>

\* ---------------------------------------------------------------------- C35
\* One step of C35: the loop goes through the rows one at a time; the
\* download command is invoked for the row at hand (it ends "ok" or
\* "failed") exactly when the row's output file does not exist at that
\* moment; and a failed download leaves the loop running.
C35_Step ==
    /\ g_log' # g_log =>
           /\ Len(g_log') = Len(g_log) + 1
           /\ SubSeq(g_log', 1, Len(g_log)) = g_log
           /\ (g_log'[Len(g_log')] \in {"ok", "failed"})
                  <=> (OutputFilename(g_ext, g_df[Len(g_log')]) \notin g_files)
           /\ g_pc' = "loop"
    /\ g_files' # g_files => /\ g_log' # g_log
                             /\ g_log'[Len(g_log')] # "skipped"

\* C35: download_videos and extract_audio invoke the download command for a
\* row if and only if the row's output file does not exist when the row is
\* reached, and the loop ends only when every row has been gone through,
\* whatever failed on the way.
C35_MediaAcquisition ==
    /\ [][C35_Step]_vars
    /\ [](/\ Len(g_log) <= Len(g_df)
          /\ g_pc = "done" => Len(g_log) = Len(g_df))

\* All rows gone through: a download failed and left no file, the download
\* of a later row succeeded and the row after that was skipped, its file
\* being there.
C35_Witness ==
    /\ g_pc = "done"
    /\ Len(g_log) = 3
    /\ g_log = <<"failed", "ok", "skipped">>
    /\ OutputFilename(g_ext, g_df[1]) \notin g_files

\* ---------------------------------------------------------------------- C36
\* One step of C36: a search page is requested only while fewer than three
\* were, the response before (if any) had a nextPageToken and no request
\* has failed; a failed request adds no id and takes none away.
C36_Step ==
    /\ k_requests' # k_requests =>
           /\ k_requests' = k_requests + 1
           /\ k_requests < 3
           /\ k_last \in {"none", "page"}
           /\ k_last = "page" => k_next_page_token \notin {NoneVal, EmptyText}
    /\ k_video_ids \subseteq k_video_ids'
    /\ (k_requests' # k_requests /\ k_last' = "error") =>
           /\ k_pc' = "searched"
           /\ k_video_ids' = k_video_ids

\* C36: run_crawler issues at most three search requests and none after a
\* response without a nextPageToken or after an HTTP error, which keeps the
\* ids gathered before it; and the output file is not written when no
\* video id was found or no row is left after filtering.
C36_SearchPaging ==
    /\ [][C36_Step]_vars
    /\ [](/\ k_requests <= 3
          /\ (k_pc = "done" /\ k_video_ids = {}) => ~k_written
          /\ (k_pc = "done" /\ k_df = <<>>) => ~k_written
          /\ k_pc # "done" => ~k_written)

\* The first two pages brought ids and the third request failed: the run
\* went on with the ids of the two pages and wrote the output file.
C36_Witness ==
    /\ k_pc = "done"
    /\ k_requests = 3
    /\ k_last = "error"
    /\ k_video_ids = CrawlIds
    /\ k_written
    /\ k_saved # <<>>

\* ---------------------------------------------------------------------- C37
\* The title holds the keyword, whatever the case of the letters of either.
HoldsKeyword(title, keyword) == Contains(LowerText(keyword), LowerText(title))

\* The row of the output CSV was made from the video of the response.
MadeFrom(row, video) ==
    /\ row.video_id = video.id
    /\ row.title = video.title
    /\ row.views = video.viewCount
    /\ row.likes = video.likeCount
    /\ row.comments = video.commentCount

\* C37: every row run_crawler saves was made from a video of the details
\* response, has views >= min_view_count, a title that holds none of the
\* excluded keywords in any case, and engagement = likes + comments; at most
\* max_results rows are saved (max_results >= 0).
C37_OutputFilter ==
    k_written =>
        /\ Len(k_saved) <= k_max_results
        /\ \A n \in 1..Len(k_saved) :
             LET row == k_saved[n]
             IN  /\ \E m \in 1..Len(k_video_details) :
                        MadeFrom(row, k_video_details[m])
                 /\ row.views >= k_min_view_count
                 /\ \A k \in 1..Len(k_exclude) : ~HoldsKeyword(row.title, k_exclude[k])
                 /\ row.engagement = row.likes + row.comments

\* The CSV was written with max_results rows, fewer than the filter let
\* through, after one video was dropped for a keyword its title holds in
\* another case and another for its views.
C37_Witness ==
    /\ k_written
    /\ k_max_results >= 1
    /\ Len(k_saved) = k_max_results
    /\ Len(k_df) > Len(k_saved)
    /\ \E m \in 1..Len(k_video_details) :
          /\ HoldsKeyword(k_video_details[m].title, k_exclude[1])
          /\ ~Contains(k_exclude[1], k_video_details[m].title)
    /\ \E m \in 1..Len(k_video_details) :
          /\ ~HoldsKeyword(k_video_details[m].title, k_exclude[1])
          /\ k_video_details[m].viewCount < k_min_view_count
====
